---------------------------- MODULE Spec2Model ----------------------------
(* A model of the MSlash interpreter of src/main.py: the preprocessing     *)
(* pass (preprocess_script, preprocess_class_body), the module loader      *)
(* (load_module) and the recursive statement executor (execute), whose     *)
(* recursion is kept as an explicit stack of frames, one per invocation.   *)
(* The statements input, math, emptyline, pause and help only read or      *)
(* write the console and are left out.                                     *)
EXTENDS Integers, Sequences, FiniteSets, TLC

(***************************************************************************)
(* Values. Python values the scripts here can produce: an int, None, or a  *)
(* reference to an MSlashObject (an index into the heap).                  *)
(***************************************************************************)
None == [t |-> "none", v |-> 0]
IntV(i) == [t |-> "int", v |-> i]
ObjV(o) == [t |-> "obj", v |-> o]

\* A variant of Truthy that takes every value that is not None for true.
Truthy_NotNone(val) == val.t # "none"

\* Python truthiness of a value: None and 0 are falsy, an instance is truthy.
Truthy(val) == (val.t = "obj") \/ (val.t = "int" /\ val.v # 0)

EmptyMap == [n \in {} |-> None]
Bind(m, n, val) == [k \in (DOMAIN m) \cup {n} |-> IF k = n THEN val ELSE m[k]]
\* dict.update(other): the entries of other win.
Update(m, other) ==
    [k \in (DOMAIN m) \cup (DOMAIN other) |-> IF k \in DOMAIN other THEN other[k] ELSE m[k]]

(***************************************************************************)
(* Expression texts. The forms a script argument takes here:               *)
(*   lit   an integer literal               3                              *)
(*   name  a bare name                      x                              *)
(*   ip    an interpolated name             ${x}                           *)
(*   isum  an interpolated sum              ${x+y}                         *)
(*   inst  the text str() gives an instance <instance of C>                *)
(*   newlit an expression that contains "new " and gives an integer,       *)
(*          such as  len("new ") + 0                                       *)
(***************************************************************************)
NoExpr == [op |-> "none", x |-> "", y |-> "", v |-> 0]
Lit(i) == [op |-> "lit", x |-> "", y |-> "", v |-> i]
Nm(x) == [op |-> "name", x |-> x, y |-> "", v |-> 0]
Ip(x) == [op |-> "ip", x |-> x, y |-> "", v |-> 0]
ISum(x, y) == [op |-> "isum", x |-> x, y |-> y, v |-> 0]
InstText == [op |-> "inst", x |-> "", y |-> "", v |-> 0]
NewLit(i) == [op |-> "newlit", x |-> "", y |-> "", v |-> i]

(***************************************************************************)
(* Script lines, as the text shapes execute() and preprocess_script()      *)
(* tell apart.  n: a variable, function, class, attribute or symbol name;  *)
(* e: an expression text; f: a function, class, method or module name;     *)
(* args: argument texts; ps: declared parameter names.                     *)
(***************************************************************************)
Line(k, n, e, f, args, ps) == [k |-> k, n |-> n, e |-> e, f |-> f, args |-> args, ps |-> ps]
Blank == Line("blank", "", NoExpr, "", <<>>, <<>>)          \* an empty line
Comment == Line("comment", "", NoExpr, "", <<>>, <<>>)      \* { a comment } alone
Say(e) == Line("say", "", e, "", <<>>, <<>>)                \* say E
Var(n, e) == Line("var", n, e, "", <<>>, <<>>)              \* var N = E
VarCall(n, f, args) == Line("varcall", n, NoExpr, f, args, <<>>)   \* var N = F(args)
VarNew(n, c, args) == Line("varnew", n, NoExpr, c, args, <<>>)     \* var N = new C(args)
VarThis(a, e) == Line("varthis", a, e, "", <<>>, <<>>)      \* var this.A = E
Call(f, args) == Line("call", "", NoExpr, f, args, <<>>)    \* F(args)
Meth(o, f, args) == Line("meth", o, NoExpr, f, args, <<>>)  \* O.F(args)
If(e) == Line("if", "", e, "", <<>>, <<>>)                  \* if E
Else == Line("else", "", NoExpr, "", <<>>, <<>>)
EndIf == Line("endif", "", NoExpr, "", <<>>, <<>>)
Loop(e) == Line("loop", "", e, "", <<>>, <<>>)              \* loop E
EndLoop == Line("endloop", "", NoExpr, "", <<>>, <<>>)
Func(f, ps) == Line("func", "", NoExpr, f, <<>>, ps)        \* func F(ps)
FuncBad(f) == Line("funcbad", "", NoExpr, f, <<>>, <<>>)    \* func F   (no parentheses)
EndFunc == Line("endfunc", "", NoExpr, "", <<>>, <<>>)
Class(c) == Line("class", "", NoExpr, c, <<>>, <<>>)        \* class C
EndClass == Line("endclass", "", NoExpr, "", <<>>, <<>>)
Return(e) == Line("return", "", e, "", <<>>, <<>>)          \* return E
Break == Line("break", "", NoExpr, "", <<>>, <<>>)
Steal(n, f) == Line("steal", n, NoExpr, f, <<>>, <<>>)      \* steal N from F
StealBad == Line("stealbad", "", NoExpr, "", <<>>, <<>>)          \* steal x lib
Unknown == Line("unknown", "", NoExpr, "", <<>>, <<>>)      \* any other text

\* A variant of strip_inline_comments that leaves a comment-only line a statement.
strip_inline_comments_Kept(line) == IF line.k = "comment" THEN Unknown ELSE line

\* strip_inline_comments(line).strip(): a line that is only a comment becomes empty.
strip_inline_comments(line) == IF line.k = "comment" THEN Blank ELSE line

Openers == {"if", "loop", "func", "funcbad", "class"}
Closers == {"endif", "endloop", "endfunc", "endclass"}

\* line 158: original_line.startswith("var ") and "new " in original_line
ContainsNew(line) ==
    \/ line.k \in {"var", "varthis"} /\ line.e.op = "newlit"
    \/ line.k = "varcall" /\ \E i \in 1..Len(line.args) : line.args[i].op = "newlit"

(***************************************************************************)
(* safe_eval and substitute_vars                                           *)
(***************************************************************************)
\* The namespace eval() gets: the variables, overlaid with this.attributes.
eval_locals(variables, heap) ==
    IF "this" \in DOMAIN variables /\ variables["this"].t = "obj"
    THEN Update(variables, heap[variables["this"].v].attrs)
    ELSE variables

\* eval() of an expression text; every exception becomes None.
safe_eval(e, variables, heap) ==
    LET loc == eval_locals(variables, heap) IN
    CASE e.op \in {"lit", "newlit"} -> IntV(e.v)
      [] e.op = "name" -> IF e.x \in DOMAIN loc THEN loc[e.x] ELSE None
      [] OTHER -> None     \* ${...} left in the text, or <instance of C>: SyntaxError

\* The value of the expression inside ${...}.
InnerValue(e, variables, heap) ==
    LET loc == eval_locals(variables, heap) IN
    CASE e.op = "ip" -> IF e.x \in DOMAIN loc THEN loc[e.x] ELSE None
      [] e.op = "isum" ->
            IF e.x \in DOMAIN loc /\ e.y \in DOMAIN loc
               /\ loc[e.x].t = "int" /\ loc[e.y].t = "int"
            THEN IntV(loc[e.x].v + loc[e.y].v) ELSE None
      [] OTHER -> None

HasInterp(e) == e.op \in {"ip", "isum"}

\* substitute_vars: the text with ${...} replaced by str(value), or the text
\* unchanged (and a warning) when the inner expression gives None.
substitute_vars(e, variables, heap) ==
    IF ~HasInterp(e) THEN e
    ELSE LET val == InnerValue(e, variables, heap) IN
         CASE val.t = "int" -> Lit(val.v)
           [] val.t = "obj" -> InstText
           [] OTHER -> e

SubstWarns(e, variables, heap) ==
    HasInterp(e) /\ InnerValue(e, variables, heap) = None

\* safe_eval(substitute_vars(text, variables), variables)
EvalText(e, variables, heap) == safe_eval(substitute_vars(e, variables, heap), variables, heap)


(***************************************************************************)
(* Console output: one record per print().  ln is the line number a        *)
(* diagnostic quotes (pc + 1), 0 when it quotes none.                      *)
(***************************************************************************)
Out(t, val, e, ln) == [t |-> t, v |-> val, e |-> e, ln |-> ln]
Diag(t, ln) == Out(t, None, NoExpr, ln)

(***************************************************************************)
(* preprocess_class_body                                                   *)
(***************************************************************************)
Blueprint(args, body) == [args |-> args, body |-> body]

ClassScanInit == [methods |-> EmptyMap, in_method |-> FALSE, method_name |-> "",
                  method_args |-> <<>>, method_body |-> <<>>, nest_level |-> 0]

\* One turn of the loop over class_lines.
ClassScanLine(s, line) ==
    LET clean == strip_inline_comments(line) IN
    CASE clean.k \in {"func", "funcbad"} ->
            IF ~s.in_method
            THEN [s EXCEPT !.in_method = TRUE,
                           !.method_name = IF clean.k = "func" THEN clean.f ELSE @,
                           !.method_args = IF clean.k = "func" THEN clean.ps ELSE @,
                           !.method_body = <<>>, !.nest_level = 0]
            ELSE [s EXCEPT !.method_body = Append(@, line), !.nest_level = @ + 1]
      [] clean.k = "endfunc" ->
            IF s.in_method /\ s.nest_level = 0
            THEN [s EXCEPT !.methods = Bind(@, s.method_name,
                                            Blueprint(s.method_args, s.method_body)),
                           !.in_method = FALSE, !.method_body = <<>>]
            ELSE IF s.in_method
            THEN [s EXCEPT !.method_body = Append(@, line), !.nest_level = @ - 1]
            ELSE s
      [] OTHER ->
            IF s.in_method
            THEN [s EXCEPT !.method_body = Append(@, line),
                           !.nest_level = IF clean.k \in {"if", "loop"} THEN @ + 1
                                          ELSE IF clean.k \in {"endif", "endloop"} /\ @ > 0
                                          THEN @ - 1 ELSE @]
            ELSE s

RECURSIVE ClassScan(_, _, _)
ClassScan(s, class_lines, i) ==
    IF i > Len(class_lines) THEN s
    ELSE ClassScan(ClassScanLine(s, class_lines[i]), class_lines, i + 1)

\* The methods map that CLASSES[class_name] receives.
preprocess_class_body(class_lines) == [methods |-> ClassScan(ClassScanInit, class_lines, 1).methods]

(***************************************************************************)
(* preprocess_script.  F and C are the global registries FUNCTIONS and     *)
(* CLASSES it writes; err is the KeyError of FUNCTIONS[construct_name];    *)
(* out the diagnostics printed.                                            *)
(***************************************************************************)
PreInit(F, C) == [main_code |-> <<>>, in_construct |-> "", construct_name |-> "",
                  construct_body |-> <<>>, nest_level |-> 0, current_class_name |-> "",
                  F |-> F, C |-> C, err |-> FALSE, out |-> <<>>]

\* A variant of OwnEndFunc in which the first endfunc met ends the capture.
OwnEndFunc_First(s) == s.in_construct # ""

\* line 481: an endfunc closes the construct being captured only at nesting level 0
OwnEndFunc(s) == s.in_construct # "" /\ s.nest_level = 0

\* One turn of the while loop of preprocess_script.
PreLine(s, line) ==
    LET clean == strip_inline_comments(line) IN
    CASE clean.k = "class" ->
            IF s.in_construct = ""
            THEN [s EXCEPT !.in_construct = "class", !.current_class_name = clean.f,
                           !.construct_body = <<>>, !.nest_level = 0]
            ELSE [s EXCEPT !.construct_body = Append(@, line), !.nest_level = @ + 1]
      [] clean.k \in {"func", "funcbad"} ->
            IF s.in_construct = ""
            THEN [s EXCEPT !.in_construct = "func",
                           !.construct_name = IF clean.k = "func" THEN clean.f ELSE @,
                           !.F = IF clean.k = "func"
                                 THEN Bind(@, clean.f, Blueprint(clean.ps, <<>>)) ELSE @,
                           !.construct_body = <<>>, !.nest_level = 0]
            ELSE [s EXCEPT !.construct_body = Append(@, line), !.nest_level = @ + 1]
      [] clean.k = "endclass" ->
            IF s.in_construct = "class" /\ s.nest_level = 0
            THEN [s EXCEPT !.C = Bind(@, s.current_class_name,
                                      preprocess_class_body(s.construct_body)),
                           !.in_construct = "", !.construct_body = <<>>,
                           !.current_class_name = ""]
            ELSE IF s.in_construct # ""
            THEN [s EXCEPT !.construct_body = Append(@, line), !.nest_level = @ - 1]
            ELSE [s EXCEPT !.out = Append(@, Diag("stray_endclass", 0))]
      [] clean.k = "endfunc" ->
            IF OwnEndFunc(s)
            THEN IF s.in_construct = "func"
                 THEN IF s.construct_name \in DOMAIN s.F
                      THEN [s EXCEPT !.F = Bind(@, s.construct_name,
                                                Blueprint(s.F[s.construct_name].args,
                                                          s.construct_body)),
                                     !.in_construct = "", !.construct_body = <<>>]
                      ELSE [s EXCEPT !.err = TRUE]
                 ELSE [s EXCEPT !.in_construct = "", !.construct_body = <<>>]
            ELSE IF s.in_construct # ""
            THEN [s EXCEPT !.construct_body = Append(@, line), !.nest_level = @ - 1]
            ELSE [s EXCEPT !.out = Append(@, Diag("stray_endfunc", 0))]
      [] OTHER ->
            IF s.in_construct # ""
            THEN [s EXCEPT !.construct_body = Append(@, line),
                           !.nest_level = IF clean.k \in {"if", "loop"} THEN @ + 1
                                          ELSE IF clean.k \in {"endif", "endloop"} /\ @ > 0
                                          THEN @ - 1 ELSE @]
            ELSE [s EXCEPT !.main_code = Append(@, line)]

RECURSIVE PreScan(_, _, _)
PreScan(s, all_lines, i) ==
    IF i > Len(all_lines) \/ s.err THEN s
    ELSE PreScan(PreLine(s, all_lines[i]), all_lines, i + 1)

preprocess_script(all_lines, F, C) == PreScan(PreInit(F, C), all_lines, 1)


(***************************************************************************)
(* The interpreter's state.                                                *)
(*   script, modules  the target file and the module files beside it       *)
(*   FUNCTIONS, CLASSES  the process-wide registries                       *)
(*   stack    the pending execute() invocations, innermost last            *)
(*   envs     the Environments (dicts) alive, in creation order            *)
(*   heap     the MSlashObjects created                                    *)
(*   output   what was printed                                             *)
(*   status   start | run | done | exited (sys.exit)                       *)
(* History kept for the properties: trace (the statements executed), ev    *)
(* (what the last step did), phase and first (a second run of the script   *)
(* with blank lines inserted, and the first run's result).                 *)
(***************************************************************************)
VARIABLES script, modules, FUNCTIONS, CLASSES, stack, envs, heap, output, status,
          trace, ev, phase, first, subst_line

vars == <<script, modules, FUNCTIONS, CLASSES, stack, envs, heap, output, status,
          trace, ev, phase, first, subst_line>>
\* What no statement writes: the files, the bookkeeping of the two runs, and the
\* local line of a substitute_vars call that is followed turn by turn (SubstSpec).
files == <<script, modules, phase, first, subst_line>>

NoEv == [t |-> "none"]

\* One execute(lines, variables) invocation.  kind says who called it:
\*   main, module (load_module), call (F(args)), vcall (var N = F(args)),
\*   init (new), method, if (a branch), loop (one iteration).
\* env indexes envs; name, obj, closer, left, path, savedF, savedC are the caller's
\* locals the invocation returns to; entry, entryHeap, assigned, preEnv, preF and
\* preC are history: the caller's Environment and the instances at loop entry, the
\* bindings an if-branch wrote, the importer's Environment and registries when steal
\* began.
Frame(kind, lines, env) ==
    [kind |-> kind, lines |-> lines, pc |-> 0, env |-> env, name |-> "", obj |-> 0,
     closer |-> 0, left |-> 0, path |-> "", savedF |-> EmptyMap, savedC |-> EmptyMap,
     entry |-> EmptyMap, entryHeap |-> <<>>, assigned |-> EmptyMap, preEnv |-> EmptyMap,
     preF |-> EmptyMap, preC |-> EmptyMap]

top == stack[Len(stack)]
Running == status = "run" /\ stack # <<>>
AtLine == Running /\ top.pc < Len(top.lines)
raw_line == top.lines[top.pc + 1]
cur == strip_inline_comments(raw_line)
variables == envs[top.env]

Pop(s) == SubSeq(s, 1, Len(s) - 1)
\* pc += 1 in the innermost invocation
Advance(stk) == [stk EXCEPT ![Len(stk)].pc = @ + 1]
\* History: a binding written by a statement of an if-branch.
Assigned(fr, n, val) == IF fr.kind = "if" THEN [fr EXCEPT !.assigned = Bind(@, n, val)] ELSE fr
\* A variant of SetVar in which a branch of an if runs against a copy of the
\* Environment: what the branch writes is lost.
SetVar_BranchOnCopy(es, stk, n, val) ==
    IF stk[Len(stk)].kind = "if" THEN es
    ELSE [es EXCEPT ![stk[Len(stk)].env] = Bind(@, n, val)]

\* variables[n] = val by the statement at the innermost invocation of stk
SetVar(es, stk, n, val) == [es EXCEPT ![stk[Len(stk)].env] = Bind(@, n, val)]
NoteVar(stk, n, val) == [stk EXCEPT ![Len(stk)] = Assigned(@, n, val)]

(***************************************************************************)
(* main(): read the file, preprocess it, execute the main lines against a  *)
(* fresh global Environment.                                               *)
(***************************************************************************)
Main ==
    /\ status = "start"
    /\ LET pre == preprocess_script(script, FUNCTIONS, CLASSES) IN
       /\ FUNCTIONS' = pre.F
       /\ CLASSES' = pre.C
       /\ IF pre.err
          THEN /\ output' = output \o pre.out \o <<Diag("unexpected", 0)>>
               /\ status' = "done"
               /\ stack' = <<>>
               /\ envs' = <<>>
          ELSE /\ output' = output \o pre.out
               /\ status' = "run"
               /\ stack' = <<Frame("main", pre.main_code, 1)>>
               /\ envs' = <<EmptyMap>>
    /\ ev' = [t |-> "main"]
    /\ UNCHANGED <<files, heap, trace>>

(***************************************************************************)
(* execute(): one turn of its while loop per action.                       *)
(***************************************************************************)
\* lines 104-106: an empty line is skipped
SkipBlank ==
    /\ AtLine /\ cur.k = "blank"
    /\ stack' = Advance(stack)
    /\ ev' = [t |-> "blank"]
    /\ UNCHANGED <<files, FUNCTIONS, CLASSES, envs, heap, output, status, trace>>

\* lines 278-285: say
SayStmt ==
    /\ AtLine /\ cur.k = "say"
    /\ LET substituted == substitute_vars(cur.e, variables, heap)
           final == safe_eval(substituted, variables, heap)
           warn == IF SubstWarns(cur.e, variables, heap)
                   THEN <<Out("warn", None, cur.e, 0)>> ELSE <<>>
       IN output' = output \o warn \o
                    <<IF final # None THEN Out("say", final, NoExpr, 0)
                      ELSE Out("raw", None, substituted, 0)>>
    /\ stack' = Advance(stack)
    /\ trace' = Append(trace, cur)
    /\ ev' = [t |-> "say"]
    /\ UNCHANGED <<files, FUNCTIONS, CLASSES, envs, heap, status>>

\* A variant of Assignable in which the result of a failed evaluation is assigned too.
Assignable_Always(result) == TRUE

\* line 271: if result is not None
Assignable(result) == result # None

\* lines 236-242, 262-276: the general assignment var N = E; also var N = F(args)
\* when F is no known function (the text F(args) then fails to evaluate)
VarStmt ==
    /\ AtLine /\ ~ContainsNew(cur)
    /\ \/ cur.k = "var"
       \/ cur.k = "varcall" /\ cur.f \notin DOMAIN FUNCTIONS
    /\ LET warns == IF cur.k = "var" THEN SubstWarns(cur.e, variables, heap)
                    ELSE \E i \in 1..Len(cur.args) : SubstWarns(cur.args[i], variables, heap)
           result == IF cur.k = "var" THEN EvalText(cur.e, variables, heap) ELSE None
           warn == IF warns THEN <<Out("warn", None, cur.e, 0)>> ELSE <<>>
       IN IF Assignable(result)
          THEN /\ envs' = SetVar(envs, stack, cur.n, result)
               /\ stack' = Advance(NoteVar(stack, cur.n, result))
               /\ output' = output \o warn
          ELSE /\ envs' = envs
               /\ stack' = Advance(stack)
               /\ output' = output \o warn \o <<Diag("invalid_value", top.pc + 1)>>
    /\ trace' = Append(trace, cur)
    /\ ev' = [t |-> "var"]
    /\ UNCHANGED <<files, FUNCTIONS, CLASSES, heap, status>>

\* lines 421-424: a bare closer is ignored, anything else is an unknown command;
\* so is F(args) when F is no known function
OtherStmt ==
    /\ AtLine
    /\ \/ cur.k \in {"else", "endif", "endloop", "endfunc", "endclass"}
       \/ cur.k \in {"unknown", "func", "funcbad", "class"}
       \/ cur.k = "call" /\ cur.f \notin DOMAIN FUNCTIONS
    /\ output' = IF cur.k \in {"else", "endif", "endloop", "endfunc", "endclass"}
                 THEN output ELSE Append(output, Diag("unknown_command", top.pc + 1))
    /\ stack' = Advance(stack)
    /\ trace' = Append(trace, cur)
    /\ ev' = [t |-> "other"]
    /\ UNCHANGED <<files, FUNCTIONS, CLASSES, envs, heap, status>>


(***************************************************************************)
(* The return of one execute() invocation to its caller: what the caller   *)
(* does with the returned value rv, and where it goes on.  out is what the *)
(* returning turn printed before.                                          *)
(***************************************************************************)
\* A variant of StealCopy that looks the symbol up in the functions first.
StealCopy_FunctionsFirst(sym, mod_vars, mod_funcs, mod_classes) ==
    IF sym \in DOMAIN mod_funcs THEN "func"
    ELSE IF sym \in DOMAIN mod_vars THEN "var"
    ELSE IF sym \in DOMAIN mod_classes THEN "class"
    ELSE "none"

\* lines 124-135: what the steal statement does with load_module's triple
StealCopy(sym, mod_vars, mod_funcs, mod_classes) ==
    IF sym \in DOMAIN mod_vars THEN "var"
    ELSE IF sym \in DOMAIN mod_funcs THEN "func"
    ELSE IF sym \in DOMAIN mod_classes THEN "class"
    ELSE "none"

\* A variant of StolenInto that takes over the whole registry of the module.
StolenInto_All(registry, symbol, mod_registry) == Update(registry, mod_registry)

\* lines 129, 132: FUNCTIONS[symbol] = mod_funcs[symbol] (CLASSES likewise)
StolenInto(registry, symbol, mod_registry) == Bind(registry, symbol, mod_registry[symbol])

\* A variant of Returned in which the result of the call is dropped.
Returned_Dropped(rv) == None

\* lines 259-260: return_value = execute(...); variables[name] = return_value
Returned(rv) == rv

\* The caller's frames after the innermost invocation returned and the caller's
\* statement completed: its pc moves past the statement (past the closer of a block).
Resume(stk, pcnew) == [Pop(stk) EXCEPT ![Len(stk) - 1].pc = pcnew]

\* A variant of IterEnv without the copy: an iteration goes on with the bindings the
\* innermost Environment holds, the previous iteration's for every iteration but the first.
IterEnv_NoCopy(es, stk) == es[Len(es)]

\* line 395: the Environment of one iteration is variables.copy(), variables being
\* the dict of the invocation (the innermost of stk) that runs the loop statement
IterEnv(es, stk) == es[stk[Len(stk)].env]

FinishEv(how, rv) ==
    [t |-> "finish", kind |-> top.kind, how |-> how, rv |-> rv, depth |-> Len(stack),
     name |-> top.name, obj |-> top.obj, closer |-> top.closer, last |-> (top.left = 0),
     entry |-> top.entry, assigned |-> top.assigned, preEnv |-> top.preEnv,
     preF |-> top.savedF, preC |-> top.savedC, restoredF |-> FUNCTIONS, restoredC |-> CLASSES,
     under |-> IF Len(stack) > 1 THEN stack[Len(stack) - 1].kind ELSE "none",
     uname |-> IF Len(stack) > 1 THEN stack[Len(stack) - 1].name ELSE "",
     opener |-> IF Len(stack) > 1 THEN stack[Len(stack) - 1].pc ELSE 0]

Finish(how, rv, out) ==
    LET fr == top
        caller == stack[Len(stack) - 1]
        next == caller.pc + 1
    IN
    CASE fr.kind = "main" ->
            \* main() returns
            /\ stack' = <<>>
            /\ status' = "done"
            /\ output' = output \o out
            /\ ev' = FinishEv(how, rv)
            /\ UNCHANGED <<envs, FUNCTIONS, CLASSES>>
      [] fr.kind \in {"call", "method"} ->
            \* lines 155, 213: the result is dropped
            /\ stack' = Resume(stack, next)
            /\ envs' = Pop(envs)
            /\ output' = output \o out
            /\ ev' = FinishEv(how, rv)
            /\ UNCHANGED <<status, FUNCTIONS, CLASSES>>
      [] fr.kind = "vcall" ->
            \* lines 259-260: variables[name] = return_value
            /\ stack' = Resume(NoteVar(Pop(stack), fr.name, Returned(rv)) \o <<fr>>, next)
            /\ envs' = SetVar(Pop(envs), Pop(stack), fr.name, Returned(rv))
            /\ output' = output \o out
            /\ ev' = FinishEv(how, rv)
            /\ UNCHANGED <<status, FUNCTIONS, CLASSES>>
      [] fr.kind = "init" ->
            \* lines 181-183: variables[name] = new_object
            /\ stack' = Resume(NoteVar(Pop(stack), fr.name, ObjV(fr.obj)) \o <<fr>>, next)
            /\ envs' = SetVar(Pop(envs), Pop(stack), fr.name, ObjV(fr.obj))
            /\ output' = output \o out
            /\ ev' = FinishEv(how, rv)
            /\ UNCHANGED <<status, FUNCTIONS, CLASSES>>
      [] fr.kind = "if" ->
            \* lines 358-363: the result is dropped; pc = endif_pos, then pc += 1
            /\ stack' = [Resume(stack, fr.closer + 1) EXCEPT ![Len(stack) - 1].assigned =
                             IF caller.kind = "if" THEN Update(@, fr.assigned) ELSE @]
            /\ output' = output \o out
            /\ ev' = FinishEv(how, rv)
            /\ UNCHANGED <<envs, status, FUNCTIONS, CLASSES>>
      [] fr.kind = "loop" ->
            \* lines 394-396: the next iteration on a new copy, or pc = loop_body_end
            /\ IF fr.left > 0
               THEN /\ stack' = [stack EXCEPT ![Len(stack)].pc = 0, ![Len(stack)].left = @ - 1]
                    /\ envs' = [envs EXCEPT ![fr.env] = IterEnv(envs, Pop(stack))]
               ELSE /\ stack' = Resume(stack, fr.closer + 1)
                    /\ envs' = Pop(envs)
            /\ output' = output \o out
            /\ ev' = FinishEv(how, rv)
            /\ UNCHANGED <<status, FUNCTIONS, CLASSES>>
      [] fr.kind = "module" ->
            \* lines 568-575, then 125-135 in the importer
            LET mod_vars == envs[fr.env]
                what == StealCopy(fr.name, mod_vars, FUNCTIONS, CLASSES)
            IN
            /\ FUNCTIONS' = IF what = "func" THEN StolenInto(fr.savedF, fr.name, FUNCTIONS)
                            ELSE fr.savedF
            /\ CLASSES' = IF what = "class" THEN StolenInto(fr.savedC, fr.name, CLASSES)
                          ELSE fr.savedC
            /\ IF what = "var"
               THEN /\ envs' = SetVar(Pop(envs), Pop(stack), fr.name, mod_vars[fr.name])
                    /\ stack' = Resume(NoteVar(Pop(stack), fr.name, mod_vars[fr.name]) \o <<fr>>,
                                       next)
               ELSE /\ envs' = Pop(envs)
                    /\ stack' = Resume(stack, next)
            /\ output' = output \o out \o
                         (IF what = "none" THEN <<Diag("import_not_found", next)>> ELSE <<>>)
            /\ ev' = [FinishEv(how, rv) EXCEPT !.restoredF = fr.savedF, !.restoredC = fr.savedC,
                                               !.preF = fr.preF, !.preC = fr.preC]
            /\ UNCHANGED status

\* line 99: the while loop ends, line 425: return None
FrameEnd ==
    /\ Running /\ top.pc >= Len(top.lines)
    /\ Finish("end", None, <<>>)
    /\ UNCHANGED <<files, heap, trace>>

\* lines 322-326: return
ReturnStmt ==
    /\ AtLine /\ cur.k = "return"
    /\ Finish("return", EvalText(cur.e, variables, heap),
              IF SubstWarns(cur.e, variables, heap)
              THEN <<Out("warn", None, cur.e, 0)>> ELSE <<>>)
    /\ trace' = Append(trace, cur)
    /\ UNCHANGED <<files, heap>>


(***************************************************************************)
(* Exceptions and sys.exit.  The one exception execute() lets escape here  *)
(* is the RecursionError of the host stack, which MaxDepth stands for.     *)
(***************************************************************************)
MaxDepth == 6

CanNest == Len(stack) < MaxDepth

\* A variant of InnerLoad in which no steal statement catches what a module raises.
InnerLoad_None(stk) == 0

\* The innermost load_module invocation pending, 0 when there is none.
InnerLoad(stk) ==
    LET js == {j \in 1..Len(stk) : stk[j].kind = "module"} IN
    IF js = {} THEN 0 ELSE CHOOSE j \in js : \A k \in js : k <= j
OuterLoad(stk) ==
    LET js == {j \in 1..Len(stk) : stk[j].kind = "module"} IN
    IF js = {} THEN 0 ELSE CHOOSE j \in js : \A k \in js : k >= j

\* A variant of RestoreOnRaise for a restore that is skipped when the module fails.
RestoreOnRaise_Skipped(saved, current) == current

\* load_module's finally (lines 572-575) on an exception passing through it
RestoreOnRaise(saved, current) == saved

\* An exception raised in the innermost invocation: it unwinds to the nearest steal
\* statement (lines 138-139), which reports it and goes on, else to main() (610-611).
Raise(out) ==
    LET j == InnerLoad(stack) IN
    IF j = 0
    THEN /\ stack' = <<>>
         /\ status' = "done"
         /\ output' = output \o out \o <<Diag("unexpected", 0)>>
         /\ ev' = [t |-> "raise", load |-> FALSE]
         /\ UNCHANGED <<envs, FUNCTIONS, CLASSES>>
    ELSE /\ stack' = Advance(SubSeq(stack, 1, j - 1))
         /\ envs' = SubSeq(envs, 1, stack[j].env - 1)
         /\ FUNCTIONS' = RestoreOnRaise(stack[j].savedF, FUNCTIONS)
         /\ CLASSES' = RestoreOnRaise(stack[j].savedC, CLASSES)
         /\ output' = output \o out \o <<Diag("import_error", stack[j - 1].pc + 1)>>
         /\ status' = status
         /\ ev' = [t |-> "raise", load |-> TRUE, preF |-> stack[j].preF, preC |-> stack[j].preC,
                   preEnv |-> stack[j].preEnv, name |-> stack[j].name,
                   restoredF |-> RestoreOnRaise(stack[j].savedF, FUNCTIONS),
                   restoredC |-> RestoreOnRaise(stack[j].savedC, CLASSES)]

\* A variant of SystemExitHandler in which the except clause of the steal handler
\* catches the exit as it catches an exception.
SystemExitHandler_Import(stk) == InnerLoad(stk)

\* lines 138, 610: except Exception does not catch SystemExit: the frame of stk whose
\* handler catches the exit of a break, 0 for none
SystemExitHandler(stk) == 0

\* lines 318-320: break is sys.exit(); SystemExit passes every except clause, and
\* the finally of every pending load_module restores what it saved, outermost last
BreakStmt ==
    /\ AtLine /\ cur.k = "break"
    /\ LET j == OuterLoad(stack)
           h == SystemExitHandler(stack)
       IN
       IF h = 0
       THEN /\ FUNCTIONS' = IF j = 0 THEN FUNCTIONS ELSE stack[j].savedF
            /\ CLASSES' = IF j = 0 THEN CLASSES ELSE stack[j].savedC
            /\ ev' = [t |-> "break", load |-> (j # 0), depth |-> Len(stack),
                      preF |-> IF j = 0 THEN FUNCTIONS ELSE stack[j].preF,
                      preC |-> IF j = 0 THEN CLASSES ELSE stack[j].preC]
            /\ output' = Append(output, Diag("terminated", 0))
            /\ status' = "exited"
            /\ stack' = <<>>
            /\ envs' = envs
       ELSE /\ FUNCTIONS' = stack[h].savedF
            /\ CLASSES' = stack[h].savedC
            /\ ev' = [t |-> "caught"]
            /\ output' = output \o <<Diag("terminated", 0), Diag("import_error", stack[h - 1].pc + 1)>>
            /\ status' = status
            /\ stack' = Advance(SubSeq(stack, 1, h - 1))
            /\ envs' = SubSeq(envs, 1, stack[h].env - 1)
    /\ trace' = Append(trace, cur)
    /\ UNCHANGED <<files, heap>>

(***************************************************************************)
(* Block boundary resolution and the two block statements.  Positions are  *)
(* the 0-based indexes of the code: lines[i] there is lines[i + 1] here.   *)
(***************************************************************************)
\* lines 333-349: the scan of an if; end is endif_pos, -1 when none is found
RECURSIVE ScanIf(_, _, _, _)
ScanIf(lines, i, nest_level, else_pos) ==
    IF i >= Len(lines) THEN [end |-> -1, else_pos |-> else_pos]
    ELSE LET scan_line == strip_inline_comments(lines[i + 1]) IN
         IF scan_line.k \in Openers
         THEN ScanIf(lines, i + 1, nest_level + 1, else_pos)
         ELSE IF scan_line.k \in Closers
         THEN IF nest_level = 0 THEN [end |-> i, else_pos |-> else_pos]
              ELSE ScanIf(lines, i + 1, nest_level - 1, else_pos)
         ELSE IF scan_line.k = "else" /\ nest_level = 0
         THEN ScanIf(lines, i + 1, nest_level, i)
         ELSE ScanIf(lines, i + 1, nest_level, else_pos)

\* A variant of ScanLoop that keeps no nesting level: the first closer line ends the loop.
ScanLoop_FirstCloser(lines, i, nest_level) ==
    LET found == {j \in i..(Len(lines) - 1) : strip_inline_comments(lines[j + 1]).k \in Closers}
    IN IF found = {} THEN -1 ELSE CHOOSE j \in found : \A k \in found : j <= k

\* lines 374-386: the scan of a loop; loop_body_end, -1 when none is found
RECURSIVE ScanLoop(_, _, _)
ScanLoop(lines, i, nest_level) ==
    IF i >= Len(lines) THEN -1
    ELSE LET scan_line == strip_inline_comments(lines[i + 1]) IN
         IF scan_line.k \in Openers
         THEN ScanLoop(lines, i + 1, nest_level + 1)
         ELSE IF scan_line.k \in Closers
         THEN IF nest_level = 0 THEN i ELSE ScanLoop(lines, i + 1, nest_level - 1)
         ELSE ScanLoop(lines, i + 1, nest_level)

\* lines[a:b] of the code
Slice(lines, a, b) == SubSeq(lines, a + 1, b)

Warn(e) == IF SubstWarns(e, variables, heap) THEN <<Out("warn", None, e, 0)>> ELSE <<>>

\* line 358, 361: the Environment a branch runs against is the caller's own
IfEnv(stk) == stk[Len(stk)].env

\* lines 328-363: if
IfStmt ==
    /\ AtLine /\ cur.k = "if"
    /\ LET result == EvalText(cur.e, variables, heap)
           scan == ScanIf(top.lines, top.pc + 1, 0, -1)
           if_block_end == IF scan.else_pos # -1 THEN scan.else_pos ELSE scan.end
           taken == IF Truthy(result) THEN "then"
                    ELSE IF scan.else_pos # -1 THEN "else" ELSE "none"
           body == IF taken = "then" THEN Slice(top.lines, top.pc + 1, if_block_end)
                   ELSE Slice(top.lines, scan.else_pos + 1, scan.end)
       IN
       IF scan.end = -1
       THEN Finish("unmatched", None, Warn(cur.e) \o <<Diag("if_no_endif", top.pc + 1)>>)
       ELSE IF taken = "none"
       THEN /\ stack' = [stack EXCEPT ![Len(stack)].pc = scan.end + 1]
            /\ output' = output \o Warn(cur.e)
            /\ ev' = [t |-> "skip", opener |-> top.pc]
            /\ UNCHANGED <<envs, status, FUNCTIONS, CLASSES>>
       ELSE IF ~CanNest
       THEN Raise(Warn(cur.e))
       ELSE /\ stack' = Append(stack, [Frame("if", body, IfEnv(stack)) EXCEPT
                                          !.closer = scan.end])
            /\ output' = output \o Warn(cur.e)
            /\ ev' = [t |-> "enter", kind |-> "if", taken |-> taken, else_pos |-> scan.else_pos]
            /\ UNCHANGED <<envs, status, FUNCTIONS, CLASSES>>
    /\ trace' = Append(trace, cur)
    /\ UNCHANGED <<files, heap>>

\* lines 365-396: loop
LoopStmt ==
    /\ AtLine /\ cur.k = "loop"
    /\ LET line == substitute_vars(cur.e, variables, heap)
           loop_body_end == ScanLoop(top.lines, top.pc + 1, 0)
       IN
       IF line.op # "lit"
       THEN \* int() raises ValueError
            /\ stack' = Advance(stack)
            /\ output' = output \o Warn(cur.e) \o <<Diag("invalid_loop", top.pc + 1)>>
            /\ ev' = [t |-> "badloop"]
            /\ UNCHANGED <<envs, status, FUNCTIONS, CLASSES>>
       ELSE IF loop_body_end = -1
       THEN Finish("unmatched", None, <<Diag("loop_no_endloop", top.pc + 1)>>)
       ELSE IF line.v <= 0
       THEN /\ stack' = [stack EXCEPT ![Len(stack)].pc = loop_body_end + 1]
            /\ ev' = [t |-> "skip", opener |-> top.pc]
            /\ UNCHANGED <<envs, output, status, FUNCTIONS, CLASSES>>
       ELSE IF ~CanNest
       THEN Raise(<<>>)
       ELSE /\ stack' = Append(stack,
                   [Frame("loop", Slice(top.lines, top.pc + 1, loop_body_end), Len(envs) + 1)
                    EXCEPT !.closer = loop_body_end, !.left = line.v - 1,
                           !.entry = variables, !.entryHeap = heap])
            /\ envs' = Append(envs, IterEnv(envs, stack))
            /\ ev' = [t |-> "enter", kind |-> "loop"]
            /\ UNCHANGED <<output, status, FUNCTIONS, CLASSES>>
    /\ trace' = Append(trace, cur)
    /\ UNCHANGED <<files, heap>>


(***************************************************************************)
(* Calls: functions, constructors, methods.                                *)
(***************************************************************************)
Min(a, b) == IF a < b THEN a ELSE b

\* dict(zip(arg_names, arg_values)): zip stops at the shorter, a repeated name keeps
\* its last value
ZipMap(names, values) ==
    LET n == Min(Len(names), Len(values)) IN
    [x \in {names[i] : i \in 1..n} |->
        values[CHOOSE i \in 1..n : names[i] = x /\ \A k \in 1..n : names[k] = x => k <= i]]

\* [safe_eval(substitute_vars(v, variables), variables) for v in arg_values_raw]
ArgValues(args) == [i \in 1..Len(args) |-> EvalText(args[i], variables, heap)]

RECURSIVE ArgWarns(_, _)
ArgWarns(args, i) ==
    IF i > Len(args) THEN <<>> ELSE Warn(args[i]) \o ArgWarns(args, i + 1)

\* A variant of CalleeEnv in which the callee starts from the caller's variables.
CalleeEnv_Inherits(arg_names, arg_values, caller_vars) ==
    Update(caller_vars, ZipMap(arg_names, arg_values))

\* lines 153, 257: the callee's Environment
CalleeEnv(arg_names, arg_values, caller_vars) == ZipMap(arg_names, arg_values)

\* lines 177-178, 209-210: local_vars = {'this': obj}; local_vars.update(zip(...))
MethodEnv(obj, arg_names, arg_values) ==
    Update([n \in {"this"} |-> ObjV(obj)], ZipMap(arg_names, arg_values))

\* A variant of ArityOk for a call that is made whatever the number of arguments.
ArityOk_Unchecked(arg_values_raw, arg_names) == TRUE

\* lines 149, 253: len(arg_values_raw) != len(arg_names) aborts the call
ArityOk(arg_values_raw, arg_names) == Len(arg_values_raw) = Len(arg_names)

\* lines 141-155 and 245-260: F(args) and var N = F(args), F a known function
CallStmt ==
    /\ AtLine /\ cur.k \in {"call", "varcall"} /\ cur.f \in DOMAIN FUNCTIONS
    /\ ~ContainsNew(cur)
    /\ LET func_info == FUNCTIONS[cur.f]
           kind == IF cur.k = "call" THEN "call" ELSE "vcall"
       IN
       IF ~ArityOk(cur.args, func_info.args)
       THEN /\ output' = Append(output, Diag("arity", 0))
            /\ IF cur.k = "varcall"
               THEN /\ envs' = SetVar(envs, stack, cur.n, None)     \* line 254
                    /\ stack' = Advance(NoteVar(stack, cur.n, None))
               ELSE /\ envs' = envs
                    /\ stack' = Advance(stack)
            /\ ev' = [t |-> "arity"]
            /\ UNCHANGED <<status, FUNCTIONS, CLASSES>>
       ELSE IF ~CanNest
       THEN Raise(ArgWarns(cur.args, 1))
       ELSE /\ stack' = Append(stack, [Frame(kind, func_info.body, Len(envs) + 1)
                                       EXCEPT !.name = cur.n])
            /\ envs' = Append(envs, CalleeEnv(func_info.args, ArgValues(cur.args), variables))
            /\ output' = output \o ArgWarns(cur.args, 1)
            /\ ev' = [t |-> "enter", kind |-> kind, params |-> func_info.args,
                      values |-> ArgValues(cur.args)]
            /\ UNCHANGED <<status, FUNCTIONS, CLASSES>>
    /\ trace' = Append(trace, cur)
    /\ UNCHANGED <<files, heap>>

\* lines 69-74: a new instance; init_wrote is history, the attributes written while
\* its init ran
MSlashObject(class_name) == [class_name |-> class_name, attrs |-> EmptyMap, init_wrote |-> {}]

\* lines 157-190: var N = new C(args)
NewStmt ==
    /\ AtLine /\ (cur.k = "varnew" \/ ContainsNew(cur))
    /\ LET new_object == Len(heap) + 1
           created == Append(heap, MSlashObject(cur.f))
       IN
       IF cur.k # "varnew"
       THEN \* lines 163, 186-187: the text after = is no new C(args)
            /\ output' = Append(output, Diag("invalid_new", 0))
            /\ stack' = Advance(stack)
            /\ ev' = [t |-> "badnew"]
            /\ UNCHANGED <<envs, heap, status, FUNCTIONS, CLASSES>>
       ELSE IF cur.f \notin DOMAIN CLASSES
       THEN /\ output' = Append(output, Diag("class_undefined", 0))
            /\ stack' = Advance(stack)
            /\ ev' = [t |-> "noclass"]
            /\ UNCHANGED <<envs, heap, status, FUNCTIONS, CLASSES>>
       ELSE IF "init" \notin DOMAIN CLASSES[cur.f].methods
       THEN /\ heap' = created
            /\ envs' = SetVar(envs, stack, cur.n, ObjV(new_object))
            /\ stack' = Advance(NoteVar(stack, cur.n, ObjV(new_object)))
            /\ ev' = [t |-> "new", obj |-> new_object]
            /\ UNCHANGED <<output, status, FUNCTIONS, CLASSES>>
       ELSE IF ~CanNest
       THEN /\ heap' = created
            /\ Raise(ArgWarns(cur.args, 1))
       ELSE LET init_func == CLASSES[cur.f].methods["init"] IN
            /\ heap' = created
            /\ stack' = Append(stack, [Frame("init", init_func.body, Len(envs) + 1)
                                       EXCEPT !.name = cur.n, !.obj = new_object])
            /\ envs' = Append(envs, MethodEnv(new_object, init_func.args, ArgValues(cur.args)))
            /\ output' = output \o ArgWarns(cur.args, 1)
            /\ ev' = [t |-> "enter", kind |-> "init", obj |-> new_object]
            /\ UNCHANGED <<status, FUNCTIONS, CLASSES>>
    /\ trace' = Append(trace, cur)
    /\ UNCHANGED files

\* lines 192-218: O.M(args)
MethodStmt ==
    /\ AtLine /\ cur.k = "meth"
    /\ LET obj_instance == EvalText(Nm(cur.n), variables, heap)
           class_name == heap[obj_instance.v].class_name
       IN
       IF obj_instance.t # "obj"
       THEN /\ output' = Append(output, Diag("not_an_object", 0))
            /\ stack' = Advance(stack)
            /\ ev' = [t |-> "noobject"]
            /\ UNCHANGED <<envs, status, FUNCTIONS, CLASSES>>
       ELSE IF class_name \notin DOMAIN CLASSES \/ cur.f \notin DOMAIN CLASSES[class_name].methods
       THEN /\ output' = Append(output, Diag("method_not_found", 0))
            /\ stack' = Advance(stack)
            /\ ev' = [t |-> "nomethod"]
            /\ UNCHANGED <<envs, status, FUNCTIONS, CLASSES>>
       ELSE IF ~CanNest
       THEN Raise(ArgWarns(cur.args, 1))
       ELSE LET method_info == CLASSES[class_name].methods[cur.f] IN
            /\ stack' = Append(stack, [Frame("method", method_info.body, Len(envs) + 1)
                                       EXCEPT !.obj = obj_instance.v])
            /\ envs' = Append(envs, MethodEnv(obj_instance.v, method_info.args,
                                              ArgValues(cur.args)))
            /\ output' = output \o ArgWarns(cur.args, 1)
            /\ ev' = [t |-> "enter", kind |-> "method", obj |-> obj_instance.v]
            /\ UNCHANGED <<status, FUNCTIONS, CLASSES>>
    /\ trace' = Append(trace, cur)
    /\ UNCHANGED <<files, heap>>

\* A variant of SetAttr in which the write goes to a copy of the instance: the
\* instance that the caller's names are bound to keeps its attributes.
SetAttr_OnCopy(h, obj, attr_name, val) ==
    Append(h, [h[obj] EXCEPT !.attrs = Bind(@, attr_name, val)])

\* A variant of SetAttr in which the write does not reach the instance.
SetAttr_Lost(h, obj, attr_name, val) == h

\* line 229: variables['this'].attributes[attr_name] = value
SetAttr(h, obj, attr_name, val) == [h EXCEPT ![obj].attrs = Bind(@, attr_name, val)]

\* The invocation a statement belongs to: the innermost one that is no block.
RECURSIVE Body(_, _)
Body(stk, i) == IF i > 1 /\ stk[i].kind \in {"if", "loop"} THEN Body(stk, i - 1) ELSE i

\* History: attribute a of obj was written by the init that constructs obj.
NoteInit(h, stk, obj, a) ==
    LET fr == stk[Body(stk, Len(stk))] IN
    IF fr.kind = "init" /\ fr.obj = obj THEN [h EXCEPT ![obj].init_wrote = @ \cup {a}] ELSE h

\* lines 220-234: var this.A = E
VarThisStmt ==
    /\ AtLine /\ cur.k = "varthis" /\ ~ContainsNew(cur)
    /\ IF "this" \in DOMAIN variables /\ variables["this"].t = "obj"
       THEN /\ heap' = NoteInit(SetAttr(heap, variables["this"].v, cur.n,
                                        EvalText(cur.e, variables, heap)),
                                stack, variables["this"].v, cur.n)
            /\ output' = output \o Warn(cur.e)
            /\ ev' = [t |-> "setattr", obj |-> variables["this"].v, attr |-> cur.n,
                      under |-> top.kind]
       ELSE /\ heap' = heap
            /\ output' = Append(output, Diag("this_outside_method", 0))
            /\ ev' = [t |-> "nothis"]
    /\ stack' = Advance(stack)
    /\ trace' = Append(trace, cur)
    /\ UNCHANGED <<files, FUNCTIONS, CLASSES, envs, status>>


(***************************************************************************)
(* steal and load_module                                                   *)
(***************************************************************************)
\* lines 560-561: the registries the module is preprocessed and run with
FreshRegistry == EmptyMap

\* lines 116-139 with load_module (550-575) up to its execute() of the module
StealStmt ==
    /\ AtLine /\ cur.k \in {"steal", "stealbad"}
    /\ LET pre == preprocess_script(modules[cur.f], FreshRegistry, FreshRegistry)
           here == [t |-> "raise", load |-> TRUE, preF |-> FUNCTIONS, preC |-> CLASSES,
                    preEnv |-> variables, name |-> cur.n,
                    restoredF |-> RestoreOnRaise(FUNCTIONS, FreshRegistry),
                    restoredC |-> RestoreOnRaise(CLASSES, FreshRegistry)]
       IN
       IF cur.k = "stealbad"
       THEN \* lines 118-119: the statement does not match steal S from PATH
            /\ output' = Append(output, Diag("invalid_steal", top.pc + 1))
            /\ stack' = Advance(stack)
            /\ ev' = [t |-> "badsteal"]
            /\ UNCHANGED <<envs, status, FUNCTIONS, CLASSES>>
       ELSE IF cur.f \notin DOMAIN modules
       THEN \* open() raises FileNotFoundError
            /\ FUNCTIONS' = RestoreOnRaise(FUNCTIONS, FreshRegistry)
            /\ CLASSES' = RestoreOnRaise(CLASSES, FreshRegistry)
            /\ output' = Append(output, Diag("module_not_found", top.pc + 1))
            /\ stack' = Advance(stack)
            /\ ev' = [here EXCEPT !.t = "nofile"]
            /\ UNCHANGED <<envs, status>>
       ELSE IF pre.err \/ ~CanNest
       THEN \* preprocess_script raises KeyError, or the host stack is exhausted
            /\ FUNCTIONS' = RestoreOnRaise(FUNCTIONS, pre.F)
            /\ CLASSES' = RestoreOnRaise(CLASSES, pre.C)
            /\ output' = output \o pre.out \o <<Diag("import_error", top.pc + 1)>>
            /\ stack' = Advance(stack)
            /\ ev' = [here EXCEPT !.restoredF = RestoreOnRaise(FUNCTIONS, pre.F),
                                  !.restoredC = RestoreOnRaise(CLASSES, pre.C)]
            /\ UNCHANGED <<envs, status>>
       ELSE /\ FUNCTIONS' = pre.F
            /\ CLASSES' = pre.C
            /\ output' = output \o pre.out
            /\ stack' = Append(stack, [Frame("module", pre.main_code, Len(envs) + 1)
                                       EXCEPT !.name = cur.n, !.path = cur.f,
                                              !.savedF = FUNCTIONS, !.savedC = CLASSES,
                                              !.preF = FUNCTIONS, !.preC = CLASSES,
                                              !.preEnv = variables])
            /\ envs' = Append(envs, EmptyMap)
            /\ ev' = [t |-> "enter", kind |-> "module", path |-> cur.f]
            /\ UNCHANGED status
    /\ trace' = Append(trace, cur)
    /\ UNCHANGED <<files, heap>>


(***************************************************************************)
(* The scripts run.  The module files beside the target file:              *)
(***************************************************************************)
Lib == <<Func("g", <<>>), Say(Lit(7)), EndFunc,
         Func("h", <<>>), Say(Lit(8)), EndFunc,
         Class("P"), Func("init", <<"a">>), VarThis("x", Ip("a")), EndFunc, EndClass,
         Var("x", Lit(5)), Var("y", Lit(6))>>
\* a name that is a variable and a function of the module
Dup == <<Func("g", <<>>), Say(Lit(7)), EndFunc, Var("g", Lit(9)), Var("h", Lit(4))>>
\* func g without its parentheses: FUNCTIONS[None] raises KeyError at endfunc
Bad == <<Var("x", Lit(5)), FuncBad("g"), Say(Lit(7)), EndFunc, Func("h", <<>>), EndFunc>>
\* func g without its parentheses after func h: g's body lands in h
Stale == <<Func("h", <<>>), Say(Lit(8)), EndFunc, Var("x", Lit(5)), FuncBad("g"), Say(Lit(7)),
           EndFunc>>
\* a module that steals from itself
Cyc == <<Var("x", Lit(5)), Steal("x", "cyc")>>
Brk == <<Func("g", <<>>), Say(Lit(7)), EndFunc, Var("x", Lit(5)), Break, Var("y", Lit(6))>>
Nest == <<Func("k", <<>>), Say(Lit(3)), EndFunc, Steal("g", "lib"), Steal("z", "lib"),
          Call("g", <<>>), Var("x", Lit(1))>>
NestBrk == <<Func("g", <<>>), EndFunc, Steal("g", "brk"), Var("x", Lit(2))>>
\* unbounded recursion while the module runs
Rec == <<Func("g", <<>>), Call("g", <<>>), EndFunc, Var("x", Lit(5)), Call("g", <<>>)>>

\* an if without its endif in the main lines of the module
Open == <<Var("x", Lit(5)), If(Lit(1)), Say(Lit(7)), Var("y", Lit(6))>>

ModuleNames == {"lib", "dup", "bad", "stale", "cyc", "brk", "nest", "nestbrk", "rec", "open"}
Modules ==
    [f \in ModuleNames |->
        CASE f = "lib" -> Lib [] f = "dup" -> Dup [] f = "bad" -> Bad [] f = "brk" -> Brk
          [] f = "stale" -> Stale [] f = "cyc" -> Cyc
          [] f = "nest" -> Nest [] f = "nestbrk" -> NestBrk [] f = "open" -> Open
          [] OTHER -> Rec]

\* Importers: definitions of their own, one steal, then uses of the names.
StealScripts ==
    { <<Func("g", <<>>), Say(Lit(1)), EndFunc, Func("h", <<>>), Say(Lit(2)), EndFunc,
        Class("P"), Func("init", <<"a">>), VarThis("w", Ip("a")), EndFunc, EndClass,
        Var("x", Lit(0)), Var("y", Lit(0)),
        Steal(sym, f),
        Call("g", <<>>), Call("h", <<>>), Say(Nm("x")), Say(Nm(sym))>>
      : sym \in {"g", "h", "x", "P", "z"}, f \in ModuleNames \cup {"nofile"} }

\* Scripts of blocks: every sequence of at most MaxLen of these lines, matched or not.
MaxLen == 3
BlockLines == {If(Nm("c")), Else, EndIf, Loop(Lit(2)), EndLoop, Var("c", Lit(1)), Say(Nm("c"))}
RECURSIVE SeqsUpTo(_, _)
SeqsUpTo(S, n) ==
    IF n = 0 THEN {<<>>}
    ELSE LET shorter == SeqsUpTo(S, n - 1) IN
         shorter \cup {Append(q, x) : q \in shorter, x \in S}
BlockScripts == SeqsUpTo(BlockLines, MaxLen)

\* Well-nested scripts: a block in a block in a block, of every mix of kinds.
Wrappers ==
    { [open |-> <<If(Nm("x"))>>, close |-> <<EndIf>>],
      [open |-> <<If(Nm("x"))>>, close |-> <<Else, Say(Lit(0)), EndIf>>],
      [open |-> <<If(Nm("q")), Say(Lit(0)), Else>>, close |-> <<EndIf>>],
      [open |-> <<Loop(Lit(2))>>, close |-> <<EndLoop>>] }
Bodies == { <<Var("c", Lit(1))>>, <<Say(Nm("c")), Var("c", Ip("x"))>>,
            <<Var("c", Lit(1)), Return(Nm("c")), Say(Lit(9))>> }
NestedScripts ==
    { <<Var("x", Lit(1))>> \o w1.open \o w2.open \o <<Var("d", Lit(2))>> \o w3.open \o b
        \o w3.close \o <<Say(Nm("c"))>> \o w2.close \o w1.close \o <<Say(Nm("c")), Say(Nm("d"))>>
      : w1 \in Wrappers, w2 \in Wrappers, w3 \in Wrappers, b \in Bodies }

ClassP == <<Class("P"),
            Func("init", <<"a", "b">>), VarThis("x", Ip("a")),
              If(Nm("b")), VarThis("y", Ip("b")), EndIf, EndFunc,
            Func("get", <<>>), Say(Nm("x")), Say(Nm("y")), EndFunc,
            Func("set", <<"x">>), VarThis("x", Ip("x")), EndFunc,
            EndClass>>

Scenarios ==
    { \* loop isolation
      <<Var("x", Lit(1)), Loop(Lit(3)), Say(Nm("c")), Var("c", Lit(1)), Var("x", Lit(2)),
        If(Nm("x")), Var("d", Lit(4)), EndIf, EndLoop, Say(Nm("c")), Say(Nm("x"))>>,
      \* shared scope of conditionals, nested
      <<Var("x", Lit(1)), If(Nm("x")), Var("c", Lit(1)), If(Nm("c")), Var("d", Lit(2)),
        If(Nm("q")), Else, Var("e", Lit(3)), EndIf, EndIf, Else, Var("c", Lit(3)), EndIf,
        Say(Nm("c")), Say(Nm("d")), Say(Nm("e"))>>,
      \* calls and returns
      <<Func("add", <<"a", "b">>), Return(ISum("a", "b")), Say(Lit(99)), EndFunc,
        Func("f", <<"a">>), Say(Nm("x")), Var("q", Lit(4)), Return(Nm("a")), EndFunc,
        Var("x", Lit(1)), VarCall("r", "add", <<Lit(2), Lit(3)>>), Say(Nm("r")),
        Call("f", <<Nm("x")>>), VarCall("s", "f", <<Ip("x")>>), Say(Nm("q")),
        VarCall("t", "add", <<Lit(1)>>), Call("f", <<>>), Say(Nm("a")),
        Call("add", <<Ip("zz")>>), VarCall("u", "f", <<Ip("zz"), Lit(1)>>), Say(Nm("u"))>>,
      \* return inside a conditional of a function body
      <<Func("f", <<"a">>), If(Nm("a")), Return(Lit(1)), EndIf, Say(Lit(98)), Return(Lit(2)),
        EndFunc, VarCall("r", "f", <<Lit(1)>>), Say(Nm("r")),
        VarCall("s", "f", <<Lit(0)>>), Say(Nm("s"))>>,
      \* if containing loop containing if
      <<Var("x", Lit(1)), If(Nm("x")), Loop(Lit(2)), If(Nm("x")), Var("c", Lit(1)), Else,
        Say(Lit(0)), EndIf, Say(Nm("c")), EndLoop, Else, Loop(Lit(1)), Say(Lit(5)), EndLoop,
        EndIf, Say(Lit(6))>>,
      \* classes
      ClassP \o <<VarNew("p", "P", <<Lit(3), Lit(4)>>), Meth("p", "get", <<>>),
                  Meth("p", "set", <<Lit(5)>>), Meth("p", "get", <<>>),
                  VarNew("o", "P", <<Lit(1)>>), Meth("o", "get", <<>>),
                  Meth("o", "nope", <<>>), Meth("x", "get", <<>>),
                  VarNew("n", "Q", <<>>), VarThis("x", Lit(1)),
                  Meth("p", "set", <<>>), Meth("p", "get", <<Lit(1)>>)>>,
      \* unbounded recursion, a malformed loop count, stray lines
      <<Func("f", <<>>), Call("f", <<>>), EndFunc, Comment, Loop(Nm("x")), Say(Lit(1)),
        EndLoop, Unknown, Blank, Loop(Lit(0)), Say(Lit(2)), EndLoop, Var("u", Ip("zz")),
        Call("nofunc", <<>>), VarCall("v", "nofunc", <<>>), Call("f", <<>>), Say(Lit(3))>>,
      \* right-hand sides that contain "new "
      <<Var("x", NewLit(4)), Say(Nm("x")), Say(NewLit(4)), Func("f", <<"a">>), Return(Nm("a")),
        EndFunc, VarCall("r", "f", <<NewLit(4)>>), Say(Nm("r")), Call("f", <<NewLit(4)>>),
        VarCall("s", "f", <<NewLit(4), Lit(1)>>),
        Class("Q"), Func("m", <<>>), VarThis("x", NewLit(4)), Say(Nm("x")), EndFunc, EndClass,
        VarNew("q", "Q", <<>>), Meth("q", "m", <<>>), If(NewLit(4)), Say(Lit(1)), EndIf,
        Loop(NewLit(4)), EndLoop>>,
      \* break in a conditional in a loop in a function
      <<Func("f", <<>>), Loop(Lit(2)), If(Lit(1)), Say(Lit(0)), Break, EndIf, Say(Lit(1)), EndLoop,
        Say(Lit(2)), EndFunc, Var("x", Lit(1)), Call("f", <<>>), Say(Lit(3))>>,
      \* a malformed steal between two statements
      <<Func("g", <<>>), Say(Lit(1)), EndFunc, Var("x", Lit(1)), StealBad, Say(Nm("x")),
        Call("g", <<>>), Var("x", Ip("zz")), Say(Nm("x")), Var("x", Nm("zz")), Say(Nm("x"))>>,
      \* a function whose body holds blocks of every kind; a function defined in a
      \* conditional and defined again
      <<Say(Lit(1)), Func("f", <<"a">>), If(Nm("a")), Loop(Lit(2)), Say(Nm("a")), EndLoop, Else,
        Func("g", <<>>), Say(Lit(2)), EndFunc, EndIf, Class("K"), Func("m", <<>>), Say(Lit(3)),
        EndFunc, EndClass, Return(Nm("a")), EndFunc, If(Lit(1)), Func("h", <<>>), Say(Lit(4)),
        EndFunc, EndIf, Func("h", <<>>), Say(Lit(5)), EndFunc, Call("h", <<>>),
        VarCall("r", "f", <<Lit(1)>>), Say(Nm("r"))>>,
      \* an instance written in a loop
      <<Class("R"), Func("init", <<"a">>), VarThis("x", Ip("a")), EndFunc,
        Func("set", <<"v">>), VarThis("x", Ip("v")), EndFunc,
        Func("get", <<>>), Say(Nm("x")), EndFunc, EndClass,
        VarNew("p", "R", <<Lit(1)>>), Loop(Lit(2)), Meth("p", "get", <<>>),
        Meth("p", "set", <<Lit(2)>>), Var("q", Nm("p")), EndLoop, Meth("p", "get", <<>>),
        Say(Nm("q"))>>,
      \* a stray endclass in a function body, a stray endif in another
      <<Func("f", <<>>), Say(Lit(1)), EndIf, EndFunc, Say(Lit(2)), Call("f", <<>>),
        Func("g", <<>>), Say(Lit(3)), EndClass, EndFunc, Say(Lit(4)), Call("g", <<>>)>>,
      \* a function left malformed in the target file itself
      <<FuncBad("g"), Say(Lit(7)), EndFunc, Say(Lit(1))>>,
      \* stray closers before the main lines
      <<EndFunc, EndClass, Say(Lit(1)), Break, Say(Lit(2))>> }

Scripts == Scenarios \cup StealScripts \cup BlockScripts \cup NestedScripts

\* Lines that are empty once comments are stripped, inserted into a script that
\* ran, for a second run: n of them at position i, a comment first.
MaxBlanks == 1
RECURSIVE Blanks(_)
Blanks(n) == IF n = 0 THEN <<>>
             ELSE Blanks(n - 1) \o <<IF n % 2 = 1 THEN Comment ELSE Blank>>
InsertAt(lines, i, more) == SubSeq(lines, 1, i) \o more \o SubSeq(lines, i + 1, Len(lines))

\* The process before main() runs on the target file.
Start(target) ==
    /\ script = target
    /\ modules = Modules
    /\ FUNCTIONS = EmptyMap
    /\ CLASSES = EmptyMap
    /\ stack = <<>>
    /\ envs = <<>>
    /\ heap = <<>>
    /\ output = <<>>
    /\ status = "start"
    /\ trace = <<>>
    /\ ev = NoEv
    /\ phase = 0
    /\ first = [output |-> <<>>, trace |-> <<>>, status |-> "none"]
    /\ subst_line = <<>>

Init == \E target \in Scripts : Start(target)

\* The script with blank lines inserted, run from the start in a new process.
Rerun ==
    /\ status \in {"done", "exited"}
    /\ phase = 0
    /\ \E i \in 0..Len(script), n \in 1..MaxBlanks : script' = InsertAt(script, i, Blanks(n))
    /\ phase' = 1
    /\ first' = [output |-> output, trace |-> trace, status |-> status]
    /\ FUNCTIONS' = EmptyMap
    /\ CLASSES' = EmptyMap
    /\ stack' = <<>>
    /\ envs' = <<>>
    /\ heap' = <<>>
    /\ output' = <<>>
    /\ status' = "start"
    /\ trace' = <<>>
    /\ ev' = NoEv
    /\ UNCHANGED <<modules, subst_line>>

Next ==
    \/ Main
    \/ SkipBlank
    \/ StealStmt
    \/ CallStmt
    \/ NewStmt
    \/ MethodStmt
    \/ VarThisStmt
    \/ VarStmt
    \/ SayStmt
    \/ BreakStmt
    \/ ReturnStmt
    \/ IfStmt
    \/ LoopStmt
    \/ OtherStmt
    \/ FrameEnd
    \/ Rerun

Spec == Init /\ [][Next]_vars

(***************************************************************************)
(* substitute_vars, one turn of its while loop per action.  Here a text is *)
(* a sequence of pieces: Chars(i) is the digits of i, Interp(n) is ${n}.   *)
(* A string value is such a text: var x = "${y}" with y unbound binds x to *)
(* the five characters ${y} (the warning is printed, the text is left as   *)
(* it is and the string literal evaluates to itself).                      *)
(***************************************************************************)
Chars(i) == [k |-> "chars", v |-> i, x |-> ""]
Interp(n) == [k |-> "interp", v |-> 0, x |-> n]
StrV(text) == [t |-> "str", v |-> text]

\* line 33: str(value)
Str(val) == IF val.t = "str" THEN val.v ELSE <<Chars(val.v)>>

\* line 29: re.search finds the leftmost ${...}; 0 when there is none
Match(text) ==
    LET at == {i \in 1..Len(text) : text[i].k = "interp"}
    IN IF at = {} THEN 0 ELSE CHOOSE i \in at : \A j \in at : i <= j

MaxText == 2
MaxTurns == 4
Names == {"x", "y"}
Pieces == {Chars(1)} \cup {Interp(n) : n \in Names}
Texts == UNION {[1..n -> Pieces] : n \in 1..MaxText}
Values == {IntV(1)} \cup {StrV(text) : text \in Texts}
Environments == UNION {[D -> Values] : D \in SUBSET Names}

\* substitute_vars(line, variables) is entered from a statement of the main lines.
SubstInit ==
    /\ subst_line \in Texts
    /\ envs \in {<<variables_>> : variables_ \in Environments}
    /\ stack = <<Frame("main", <<Say(NoExpr)>>, 1)>>
    /\ status = "subst"
    /\ output = <<>>
    /\ trace = <<>>
    /\ ev = NoEv
    /\ script = <<Say(NoExpr)>> /\ modules = EmptyMap
    /\ FUNCTIONS = EmptyMap /\ CLASSES = EmptyMap /\ heap = <<>>
    /\ phase = 0 /\ first = [output |-> <<>>, trace |-> <<>>, status |-> "none"]

\* lines 29-34: the match is replaced by str(value); trace keeps the lines the call
\* has had
SubstReplace ==
    /\ status = "subst" /\ Match(subst_line) # 0 /\ Len(trace) < MaxTurns
    /\ LET m == Match(subst_line)
           value == safe_eval(Nm(subst_line[m].x), variables, heap)
       IN /\ value.t # "none"
          /\ subst_line' = SubSeq(subst_line, 1, m - 1) \o Str(value)
                           \o SubSeq(subst_line, m + 1, Len(subst_line))
    /\ trace' = Append(trace, subst_line)
    /\ ev' = [t |-> "replace"]
    /\ UNCHANGED <<script, modules, FUNCTIONS, CLASSES, stack, envs, heap, output, status,
                   phase, first>>

\* lines 35-37: the inner expression has no value: a warning, and the line is returned
SubstFail ==
    /\ status = "subst" /\ Match(subst_line) # 0
    /\ safe_eval(Nm(subst_line[Match(subst_line)].x), variables, heap).t = "none"
    /\ output' = Append(output, Out("warn", None, Nm(subst_line[Match(subst_line)].x), 0))
    /\ status' = "returned"
    /\ ev' = [t |-> "fail"]
    /\ UNCHANGED <<script, modules, FUNCTIONS, CLASSES, stack, envs, heap, trace,
                   phase, first, subst_line>>

\* line 38: no ${...} is left: the line is returned
SubstReturn ==
    /\ status = "subst" /\ Match(subst_line) = 0
    /\ status' = "returned"
    /\ ev' = [t |-> "return"]
    /\ UNCHANGED <<script, modules, FUNCTIONS, CLASSES, stack, envs, heap, output, trace,
                   phase, first, subst_line>>

SubstNext ==
    \/ SubstReplace
    \/ SubstFail
    \/ SubstReturn

SubstSpec == SubstInit /\ [][SubstNext]_vars


(***************************************************************************)
(* Properties                                                              *)
(***************************************************************************)
\* The statement the caller of the innermost invocation is at.
CallerStmt ==
    LET caller == stack[Len(stack) - 1] IN strip_inline_comments(caller.lines[caller.pc + 1])

\* C1: while a loop runs, the Environment E of the invocation that runs it keeps the
\* bindings it had at loop entry; every iteration starts from exactly those bindings;
\* and when the loop is over E has exactly the bindings it had at loop entry, so a
\* variable bound in the body is visible neither to the next iteration nor afterwards.
C1_LoopBodyBindingsStayInTheIteration ==
    /\ \A i \in 2..Len(stack) :
          stack[i].kind = "loop" =>
             /\ envs[stack[i - 1].env] = stack[i].entry
             /\ (i = Len(stack) /\ stack[i].pc = 0) => envs[stack[i].env] = stack[i].entry
    /\ (ev.t = "finish" /\ ev.kind = "loop" /\ ev.last) => envs[top.env] = ev.entry

\* A loop whose body bound c is over, and c is not bound after it.
C1_Witness ==
    /\ ev.t = "finish" /\ ev.kind = "loop" /\ ev.last /\ ev.how = "end"
    /\ "c" \notin DOMAIN envs[top.env]
    /\ \E i \in 1..Len(trace) : trace[i] = Var("c", Lit(1))

\* C2: a binding written by a statement of a taken if-branch, at any depth of nested
\* conditionals, is in the Environment E the if statement ran against: while the
\* branch runs and when execution resumes after the endif, E binds the name to the
\* value last written.
C2_BranchBindingsPersist ==
    /\ \A i \in 2..Len(stack) :
          stack[i].kind = "if" =>
             /\ stack[i].env = stack[i - 1].env
             /\ \A n \in DOMAIN stack[i].assigned :
                   n \in DOMAIN envs[stack[i].env] /\ envs[stack[i].env][n] = stack[i].assigned[n]
    /\ (ev.t = "finish" /\ ev.kind = "if") =>
          \A n \in DOMAIN ev.assigned :
             n \in DOMAIN envs[top.env] /\ envs[top.env][n] = ev.assigned[n]

\* Execution resumed after the endif of a conditional nested in a conditional, whose
\* branch bound a variable.
C2_Witness ==
    /\ ev.t = "finish" /\ ev.kind = "if" /\ ev.under = "if" /\ ev.how = "end"
    /\ ev.assigned # EmptyMap
    /\ \A n \in DOMAIN ev.assigned : envs[top.env][n] = ev.assigned[n]

\* C3: when the body of a called function starts, its Environment binds exactly the
\* declared parameter names, each to the value of its argument evaluated in the
\* caller's Environment: no variable of the caller is visible in it.
C3_CalleeSeesOnlyItsArguments ==
    (ev.t = "enter" /\ ev.kind \in {"call", "vcall"}) =>
       LET caller == stack[Len(stack) - 1]
           params == FUNCTIONS[CallerStmt.f].args
       IN /\ DOMAIN envs[top.env] = {params[i] : i \in 1..Len(params)}
          /\ top.env # caller.env
          /\ \A i \in 1..Len(params) :
                (\A k \in (i + 1)..Len(params) : params[k] # params[i]) =>
                   envs[top.env][params[i]] = EvalText(CallerStmt.args[i], envs[caller.env], heap)

\* A function body starts while the caller has a variable that is no parameter.
C3_Witness ==
    /\ ev.t = "enter" /\ ev.kind \in {"call", "vcall"}
    /\ envs[top.env] # EmptyMap
    /\ \E n \in DOMAIN envs[stack[Len(stack) - 1].env] : n \notin DOMAIN envs[top.env]

\* C4: a return reached at the top level of the body called by var R = F(args) ends
\* the invocation at once (the return is the last statement executed, the caller goes
\* on at the next line) and binds R to the returned value in the caller's
\* Environment; var r = add(2,3) with add returning ${a+b} binds r to 5.
C4_ReturnValueBound ==
    (ev.t = "finish" /\ ev.kind = "vcall" /\ ev.how = "return") =>
       LET stmt == strip_inline_comments(top.lines[ev.opener + 1]) IN
       /\ Len(stack) = ev.depth - 1
       /\ top.pc = ev.opener + 1
       /\ trace[Len(trace)].k = "return"
       /\ stmt.n \in DOMAIN envs[top.env]
       /\ envs[top.env][stmt.n] = ev.rv
       /\ (/\ stmt = VarCall("r", "add", <<Lit(2), Lit(3)>>)
           /\ trace[Len(trace)] = Return(ISum("a", "b"))
           /\ FUNCTIONS["add"].args = <<"a", "b">>)
          => envs[top.env]["r"] = IntV(5)

\* var r = add(2,3) has returned and r is 5.
C4_Witness ==
    /\ ev.t = "finish" /\ ev.kind = "vcall" /\ ev.how = "return"
    /\ "r" \in DOMAIN envs[top.env] /\ envs[top.env]["r"] = IntV(5)
    /\ trace[Len(trace)] = Return(ISum("a", "b"))

\* C5: a return reached in the taken branch of an if at the top level of a function
\* or method body ends the invocation of that body as well, with the returned value:
\* no line after the endif is executed and var R = F(args) binds R to the value.
C5_ReturnInBranchEndsTheCall ==
    (/\ ev.t = "finish" /\ ev.kind = "if" /\ ev.how = "return"
     /\ ev.under \in {"call", "vcall", "method", "init"}) =>
       /\ Len(stack) = ev.depth - 2
       /\ ev.under = "vcall" =>
             ev.uname \in DOMAIN envs[top.env] /\ envs[top.env][ev.uname] = ev.rv

\* The depth reference of the block scans: +1 on a line that opens a block, -1 on a
\* line that closes one.
Delta(line) ==
    LET l == strip_inline_comments(line) IN
    IF l.k \in Openers THEN 1 ELSE IF l.k \in Closers THEN -1 ELSE 0

\* The running depth after the line at position b, counted from the line at position a.
RECURSIVE RunningDepth(_, _, _)
RunningDepth(lines, a, b) ==
    IF b < a THEN 0 ELSE RunningDepth(lines, a, b - 1) + Delta(lines[b + 1])

\* The first line after the opener at which the running depth is zero again; -1 if none.
MatchingCloser(lines, opener) ==
    LET zero == {j \in (opener + 1)..(Len(lines) - 1) : RunningDepth(lines, opener, j) = 0}
    IN IF zero = {} THEN -1 ELSE CHOOSE j \in zero : \A k \in zero : j <= k

\* The else of the if at opener: the last else line of the block's own depth; -1 if none.
OwnElse(lines, opener) ==
    LET m == MatchingCloser(lines, opener)
        own == {j \in (opener + 1)..(m - 1) :
                   lines[j + 1].k = "else" /\ RunningDepth(lines, opener, j) = 1}
    IN IF own = {} THEN -1 ELSE CHOOSE j \in own : \A k \in own : k <= j

\* C6: the closer execute() selects for an executed if or loop is the first later line
\* at which the running depth is zero again; the lines executed for a loop are exactly
\* the lines strictly between opener and closer, for an if the lines strictly between
\* the opener, its own else (if any) and the closer; and execution resumes at the line
\* after that closer, whether the block was run or skipped.
C6_BlockEndsAtMatchingCloser ==
    /\ \A i \in 2..Len(stack) :
          stack[i].kind \in {"if", "loop"} =>
             LET p == stack[i - 1]
                 m == MatchingCloser(p.lines, p.pc)
                 e == OwnElse(p.lines, p.pc)
             IN /\ m # -1
                /\ stack[i].closer = m
                /\ stack[i].kind = "loop" => stack[i].lines = Slice(p.lines, p.pc + 1, m)
                /\ (stack[i].kind = "if" /\ e = -1) => stack[i].lines = Slice(p.lines, p.pc + 1, m)
                /\ (stack[i].kind = "if" /\ e # -1) =>
                      stack[i].lines \in {Slice(p.lines, p.pc + 1, e), Slice(p.lines, e + 1, m)}
    /\ (\/ ev.t = "skip"
        \/ ev.t = "finish" /\ ev.kind = "if"
        \/ ev.t = "finish" /\ ev.kind = "loop" /\ ev.last) =>
          /\ MatchingCloser(top.lines, ev.opener) # -1
          /\ top.pc = MatchingCloser(top.lines, ev.opener) + 1

\* An if in a loop in an if is running, each with lines after its closer.
C6_Witness ==
    /\ Len(stack) >= 4
    /\ stack[2].kind = "if" /\ stack[3].kind = "loop" /\ stack[4].kind = "if"
    /\ stack[4].closer = MatchingCloser(stack[3].lines, stack[3].pc)
    /\ stack[4].closer + 1 < Len(stack[3].lines)
    /\ stack[3].closer + 1 < Len(stack[2].lines)

\* C7: var NAME = new C(args), C defining init: as long as the init body runs, NAME is
\* not bound to the new instance in the caller's Environment; when the body is over
\* NAME is bound to it and the caller goes on; and a method entered on an instance
\* sees, at its first statement, every attribute the init of that instance wrote.
C7_InitRunsBeforeTheNameIsBound ==
    /\ \A i \in 2..Len(stack) :
          stack[i].kind = "init" =>
             LET caller_vars == envs[stack[i - 1].env] IN
             ~(stack[i].name \in DOMAIN caller_vars
                  /\ caller_vars[stack[i].name] = ObjV(stack[i].obj))
    /\ (ev.t = "finish" /\ ev.kind = "init") =>
          /\ Len(stack) = ev.depth - 1
          /\ top.pc = ev.opener + 1
          /\ ev.name \in DOMAIN envs[top.env]
          /\ envs[top.env][ev.name] = ObjV(ev.obj)
    /\ (ev.t = "enter" /\ ev.kind = "method") =>
          LET loc == eval_locals(envs[top.env], heap) IN
          \A a \in heap[top.obj].init_wrote :
             /\ a \in DOMAIN heap[top.obj].attrs
             /\ a \in DOMAIN loc
             /\ loc[a] = heap[top.obj].attrs[a]

\* A method is entered on the instance a variable of the caller holds, whose init
\* wrote an attribute.
C7_Witness ==
    /\ ev.t = "enter" /\ ev.kind = "method"
    /\ heap[top.obj].init_wrote # {}
    /\ CallerStmt.k = "meth"
    /\ CallerStmt.n \in DOMAIN envs[stack[Len(stack) - 1].env]
    /\ envs[stack[Len(stack) - 1].env][CallerStmt.n] = ObjV(top.obj)

\* A registry or Environment without the entry of one name.
Without(m, n) == [k \in (DOMAIN m) \ {n} |-> m[k]]

\* A steal statement is over: load_module returned or raised in it.
StealOver ==
    \/ ev.t = "finish" /\ ev.kind = "module"
    \/ ev.t = "raise" /\ ev.load
    \/ ev.t = "nofile"

\* C8: when steal S from PATH is over, every function, class and variable of the
\* importer whose name is not S is what it was before the statement, whatever the
\* module defines.
C8_StealTouchesOnlyTheStolenName ==
    StealOver =>
       /\ Without(FUNCTIONS, ev.name) = Without(ev.preF, ev.name)
       /\ Without(CLASSES, ev.name) = Without(ev.preC, ev.name)
       /\ Without(envs[top.env], ev.name) = Without(ev.preEnv, ev.name)

\* g was stolen from a module that also defines h, the importer having an h of its
\* own: g is the module's, h is still the importer's.
C8_Witness ==
    /\ ev.t = "finish" /\ ev.kind = "module" /\ ev.name = "g"
    /\ strip_inline_comments(top.lines[ev.opener + 1]) = Steal("g", "lib")
    /\ "h" \in DOMAIN ev.preF /\ "g" \in DOMAIN ev.preF
    /\ FUNCTIONS["g"] = preprocess_script(Lib, EmptyMap, EmptyMap).F["g"]
    /\ FUNCTIONS["g"] # ev.preF["g"]
    /\ FUNCTIONS["h"] = ev.preF["h"]
    /\ FUNCTIONS["h"] # preprocess_script(Lib, EmptyMap, EmptyMap).F["h"]

\* The names a file defines with a func or class line outside any other construct,
\* and the names its steal statements may copy.
NamesIn(file, kinds) ==
    {file[i].f : i \in {k \in 1..Len(file) : file[k].k \in kinds}}
    \cup {file[i].n : i \in {k \in 1..Len(file) : file[k].k = "steal"}}

\* C9: however load_module ends (it returns, the file is missing, preprocessing or
\* execution raises, break ends the process, steal statements nested in the module),
\* FUNCTIONS and CLASSES are again what they were before the call; and when the module
\* starts the two registries hold nothing of the caller's: only what the module file
\* itself defines, and while it runs only that and what it steals.
C9_RegistriesRestored ==
    /\ StealOver => ev.restoredF = ev.preF /\ ev.restoredC = ev.preC
    /\ (ev.t \in {"raise", "nofile"} /\ ev.load) => FUNCTIONS = ev.preF /\ CLASSES = ev.preC
    /\ (ev.t = "break" /\ ev.load) => FUNCTIONS = ev.preF /\ CLASSES = ev.preC
    /\ \A i \in 1..Len(stack) :
          stack[i].kind = "module" =>
             /\ stack[i].savedF = stack[i].preF /\ stack[i].savedC = stack[i].preC
             /\ InnerLoad(stack) = i =>
                   /\ DOMAIN FUNCTIONS \subseteq NamesIn(modules[stack[i].path], {"func", "funcbad"})
                   /\ DOMAIN CLASSES \subseteq NamesIn(modules[stack[i].path], {"class"})
    /\ (ev.t = "enter" /\ ev.kind = "module") =>
          LET file == modules[ev.path] IN
          /\ \A f \in DOMAIN FUNCTIONS : \E i \in 1..Len(file) : file[i].k = "func" /\ file[i].f = f
          /\ \A c \in DOMAIN CLASSES : \E i \in 1..Len(file) : file[i].k = "class" /\ file[i].f = c

\* A module raised while the caller had functions of its own: they are back.
C9_Witness ==
    /\ ev.t = "raise" /\ ev.load
    /\ DOMAIN ev.preF # {}
    /\ FUNCTIONS = ev.preF /\ CLASSES = ev.preC

\* The output with the line numbers quoted in it left out.
NoLineNo(out) == [i \in 1..Len(out) |-> [out[i] EXCEPT !.ln = 0]]

\* The second run is over: the run of the script with blank lines inserted.
BothRunsOver == phase = 1 /\ status \in {"done", "exited"}

\* C10 as stated: the script with blank lines inserted executes the same sequence of
\* statements and prints the same output as the script without them.
C10_BlankLinesChangeNothing ==
    BothRunsOver => trace = first.trace /\ output = first.output

\* C10: the script with blank lines inserted executes the same sequence of statements,
\* ends the same way and prints the same output, except for the line numbers quoted in
\* messages, which move by at most the number of lines inserted.
C10_BlankLinesChangeOnlyLineNumbers ==
    BothRunsOver =>
       /\ trace = first.trace
       /\ status = first.status
       /\ NoLineNo(output) = NoLineNo(first.output)
       /\ \A i \in 1..Len(output) : (output[i].ln - first.output[i].ln) \in 0..MaxBlanks

\* Both runs are over, statements were executed, and a message quotes another line
\* number than in the run without the inserted lines.
C10_Witness ==
    /\ BothRunsOver
    /\ trace # <<>> /\ trace = first.trace
    /\ \E i \in 1..Len(script) : script[i] \in {Blank, Comment}
    /\ output # first.output
    /\ NoLineNo(output) = NoLineNo(first.output)

\* The statement at the current line calls a known function with a number of
\* arguments that is not the number of its parameters.
ArityMismatch ==
    /\ AtLine /\ cur.k \in {"call", "varcall"} /\ cur.f \in DOMAIN FUNCTIONS
    /\ Len(cur.args) # Len(FUNCTIONS[cur.f].args)

\* C11: a call of a known function with the wrong number of arguments is aborted: the
\* step reports one error and nothing else (no warning of an argument's evaluation),
\* starts no invocation (no line of the body is executed: the next statement is the
\* caller's next line) and leaves the instances and registries alone.
C11_ArityMismatchAbortsTheCall ==
    [][ArityMismatch =>
          /\ Len(stack') = Len(stack)
          /\ stack'[Len(stack)].pc = top.pc + 1
          /\ stack'[Len(stack)].lines = top.lines
          /\ \E d \in {"arity", "invalid_new"} : output' = Append(output, Diag(d, 0))
          /\ Len(envs') = Len(envs)
          /\ trace' = Append(trace, cur)
          /\ <<heap, FUNCTIONS, CLASSES, status>>' = <<heap, FUNCTIONS, CLASSES, status>>]_vars

\* A call with the wrong number of arguments was aborted, one of its arguments being
\* an interpolation whose evaluation would have been reported.
C11_Witness ==
    /\ ev.t = "arity"
    /\ output[Len(output)] = Diag("arity", 0)
    /\ trace[Len(trace)].f \in DOMAIN FUNCTIONS
    /\ Len(trace[Len(trace)].args) # Len(FUNCTIONS[trace[Len(trace)].f].args)
    /\ \E i \in 1..Len(trace[Len(trace)].args) :
          SubstWarns(trace[Len(trace)].args[i], envs[top.env], heap)

\* The statement at the current line instantiates a class that defines init, or calls
\* a method of an instance, with a number of arguments that is not the number of
\* declared parameters.
MemberArityMismatch ==
    /\ AtLine
    /\ \/ /\ cur.k = "varnew"
          /\ cur.f \in DOMAIN CLASSES
          /\ "init" \in DOMAIN CLASSES[cur.f].methods
          /\ Len(cur.args) # Len(CLASSES[cur.f].methods["init"].args)
       \/ /\ cur.k = "meth"
          /\ EvalText(Nm(cur.n), variables, heap).t = "obj"
          /\ LET class_name == heap[EvalText(Nm(cur.n), variables, heap).v].class_name IN
             /\ class_name \in DOMAIN CLASSES
             /\ cur.f \in DOMAIN CLASSES[class_name].methods
             /\ Len(cur.args) # Len(CLASSES[class_name].methods[cur.f].args)

\* C12: new C(args), C defining init, and O.M(args) with a number of arguments that is
\* not the number of declared parameters are aborted with a diagnostic: no invocation
\* of the init or method body starts and no variable is bound.
C12_MemberArityMismatchAborts ==
    [][MemberArityMismatch =>
          /\ Len(stack') = Len(stack)
          /\ envs' = envs
          /\ Len(output') > Len(output)]_vars

\* The statement at the current line is a general assignment var N = E whose
\* interpolated right-hand side evaluates to a value.
GeneralAssignment ==
    /\ AtLine /\ cur.k = "var"
    /\ EvalText(cur.e, variables, heap) # None

\* C13: a general assignment var N = E whose interpolated E evaluates to v binds N to v
\* in the current Environment, whatever text E contains.
C13_AssignmentBindsTheValue ==
    [][GeneralAssignment =>
          /\ cur.n \in DOMAIN envs'[top.env]
          /\ envs'[top.env][cur.n] = EvalText(cur.e, variables, heap)]_vars

\* C14: the step of a break ends the process with every pending invocation dropped,
\* and once the process has exited no statement is executed any more: the only step
\* left is the start of another process.
C14_BreakEndsEverything ==
    [][/\ (AtLine /\ cur.k = "break") =>
             /\ status' = "exited"
             /\ stack' = <<>>
             /\ trace' = Append(trace, cur)
       /\ status = "exited" =>
             /\ stack = <<>>
             /\ phase' # phase
             /\ status' = "start" /\ trace' = <<>> /\ output' = <<>>]_vars

\* A break was executed inside a module being loaded, below other invocations, and
\* the process has exited with every one of them dropped.
C14_Witness ==
    /\ ev.t = "break" /\ ev.load /\ ev.depth >= 2
    /\ status = "exited" /\ stack = <<>>
    /\ trace[Len(trace)] = Break

\* The statement at the current line is an if or a loop (with a valid count) that has
\* no matching closer in the line sequence being executed.
UnmatchedOpener ==
    /\ AtLine
    /\ \/ cur.k = "if"
       \/ cur.k = "loop" /\ substitute_vars(cur.e, variables, heap).op = "lit"
    /\ MatchingCloser(top.lines, top.pc) = -1

\* C15: an executed if or loop without a matching closer halts the program, whatever
\* invocation it is in: the step reports it and leaves no invocation pending, so no
\* later statement is executed.
C15_UnmatchedOpenerHaltsTheProgram ==
    [][UnmatchedOpener =>
          /\ Len(output') > Len(output)
          /\ stack' = <<>>
          /\ status' = "done"]_vars

\* The else lines at the own depth of the if at opener.
OwnElses(lines, opener) ==
    {j \in (opener + 1)..(MatchingCloser(lines, opener) - 1) :
        lines[j + 1].k = "else" /\ RunningDepth(lines, opener, j) = 1}

\* The statement at the current line is an if with a matching endif and at most one
\* else of its own depth, and the host stack has room for the branch.
IfWithEndif ==
    /\ AtLine /\ cur.k = "if" /\ CanNest
    /\ MatchingCloser(top.lines, top.pc) # -1
    /\ \A i, j \in OwnElses(top.lines, top.pc) : i = j

\* C16: an if with a matching endif whose condition is truthy runs the lines between
\* the opener and its own else (the endif if there is none); one whose condition is
\* falsy or does not evaluate runs the lines between its own else and the endif, none
\* without an else.  The branch runs from its first line against the same Environment,
\* its lines are gone through once, in order, the else line is in neither branch, and
\* when the branch is over execution resumes at the line after the endif.
C16_IfRunsExactlyOneBranch ==
    [][/\ IfWithEndif =>
             LET m == MatchingCloser(top.lines, top.pc)
                 e == OwnElse(top.lines, top.pc)
                 c == EvalText(cur.e, variables, heap)
                 truthy == c.t = "obj" \/ (c.t = "int" /\ c.v # 0)
                 branch == IF truthy THEN Slice(top.lines, top.pc + 1, IF e = -1 THEN m ELSE e)
                           ELSE Slice(top.lines, e + 1, m)
             IN IF truthy \/ e # -1
                THEN /\ Len(stack') = Len(stack) + 1
                     /\ stack'[Len(stack)] = top
                     /\ stack'[Len(stack')].kind = "if"
                     /\ stack'[Len(stack')].lines = branch
                     /\ stack'[Len(stack')].pc = 0
                     /\ stack'[Len(stack')].env = top.env
                     /\ stack'[Len(stack')].closer = m
                     /\ envs' = envs
                ELSE /\ Len(stack') = Len(stack)
                     /\ stack'[Len(stack)].pc = m + 1
                     /\ envs' = envs
       /\ (Running /\ top.kind = "if" /\ Len(stack') = Len(stack) /\ stack' # stack) =>
             /\ stack'[Len(stack)].pc = top.pc + 1
             /\ stack'[Len(stack)].lines = top.lines
       /\ (Running /\ top.kind = "if" /\ Len(stack') = Len(stack) - 1 /\ status' = "run") =>
             stack'[Len(stack')].pc = top.closer + 1]_vars

\* The else-branch of an if is entered: the condition was falsy and the if has an else
\* followed by lines.
C16_Witness ==
    /\ ev.t = "enter" /\ ev.kind = "if" /\ ev.taken = "else"
    /\ top.kind = "if" /\ top.pc = 0 /\ top.lines # <<>>
    /\ ~Truthy(EvalText(CallerStmt.e, envs[top.env], heap))

\* load_module returns normally to the steal statement in this step: the main lines
\* of the module are over.
ModuleReturns ==
    /\ Running /\ top.kind = "module"
    /\ ev'.t = "finish" /\ ev'.kind = "module"

\* C17: when load_module returns, steal S looks S up in the module's variables, then
\* its functions, then its classes, and copies the first it finds and nothing else:
\* a variable into the importer's Environment with both registries left as they were,
\* else a function into FUNCTIONS only, else a class into CLASSES only.
C17_StealCopiesTheFirstMatch ==
    [][ModuleReturns =>
          LET S == top.name
              mod_vars == envs[top.env]
              mod_funcs == FUNCTIONS
              mod_classes == CLASSES
              importer == stack[Len(stack) - 1].env
          IN /\ Len(stack') = Len(stack) - 1
             /\ IF S \in DOMAIN mod_vars
                THEN /\ envs'[importer] = Bind(envs[importer], S, mod_vars[S])
                     /\ FUNCTIONS' = top.savedF /\ CLASSES' = top.savedC
                ELSE IF S \in DOMAIN mod_funcs
                THEN /\ FUNCTIONS' = Bind(top.savedF, S, mod_funcs[S])
                     /\ envs'[importer] = envs[importer] /\ CLASSES' = top.savedC
                ELSE IF S \in DOMAIN mod_classes
                THEN /\ CLASSES' = Bind(top.savedC, S, mod_classes[S])
                     /\ envs'[importer] = envs[importer] /\ FUNCTIONS' = top.savedF
                ELSE /\ envs'[importer] = envs[importer]
                     /\ FUNCTIONS' = top.savedF /\ CLASSES' = top.savedC]_vars

\* g was stolen from a module in which g is a variable and a function: the importer
\* has the variable, and its function g is the one it had.
C17_Witness ==
    /\ ev.t = "finish" /\ ev.kind = "module" /\ ev.name = "g"
    /\ strip_inline_comments(top.lines[ev.opener + 1]) = Steal("g", "dup")
    /\ envs[top.env]["g"] = IntV(9)
    /\ "g" \in DOMAIN ev.preF /\ FUNCTIONS = ev.preF
    /\ FUNCTIONS["g"] # preprocess_script(Dup, EmptyMap, EmptyMap).F["g"]

\* The innermost module being loaded: the last frame of stk that is a module's.
LoadingModule(stk) ==
    LET js == {j \in 1..Len(stk) : stk[j].kind = "module"} IN
    CHOOSE j \in js : \A k \in js : k <= j

\* The importer, at frame i of the stack after the step, has what it had before the
\* steal statement and is at the line after it, the step having reported d last.
StealFailedInto(i, d, preF, preC, preEnv) ==
    /\ status' = "run"
    /\ Len(stack') = i
    /\ stack'[i].pc = stack[i].pc + 1
    /\ stack'[i].lines = stack[i].lines
    /\ FUNCTIONS' = preF /\ CLASSES' = preC
    /\ envs'[stack[i].env] = preEnv
    /\ Len(output') > Len(output)
    /\ output'[Len(output')] = Diag(d, stack[i].pc + 1)

\* C18: a steal that fails (a malformed statement, a missing file, an exception while
\* the module is preprocessed or run, a symbol the module does not have) reports the
\* error, leaves the importer's Environment and both registries as they were before
\* the statement, and the importer goes on with its next line.
C18_FailedStealChangesNothing ==
    [][/\ (AtLine /\ cur.k = "stealbad") =>
             StealFailedInto(Len(stack), "invalid_steal", FUNCTIONS, CLASSES, variables)
       /\ (AtLine /\ cur.k = "steal" /\ cur.f \notin DOMAIN modules) =>
             StealFailedInto(Len(stack), "module_not_found", FUNCTIONS, CLASSES, variables)
       /\ (AtLine /\ cur.k = "steal" /\ ev'.t = "raise") =>
             StealFailedInto(Len(stack), "import_error", FUNCTIONS, CLASSES, variables)
       /\ (/\ Running /\ ev'.t = "raise" /\ ~(AtLine /\ cur.k = "steal")
           /\ \E j \in 1..Len(stack) : stack[j].kind = "module") =>
             LET j == LoadingModule(stack) IN
             StealFailedInto(j - 1, "import_error", stack[j].preF, stack[j].preC, stack[j].preEnv)
       /\ (/\ ModuleReturns
           /\ top.name \notin (DOMAIN envs[top.env]) \cup (DOMAIN FUNCTIONS) \cup (DOMAIN CLASSES)) =>
             StealFailedInto(Len(stack) - 1, "import_not_found", top.preF, top.preC, top.preEnv)]_vars

\* A module raised while it ran, below a function it had called, the importer having
\* definitions and variables of its own: the importer is at its next line with them.
C18_Witness ==
    /\ ev.t = "raise" /\ ev.load
    /\ Running /\ top.pc > 0
    /\ strip_inline_comments(top.lines[top.pc]) = Steal("x", "rec")
    /\ output[Len(output)] = Diag("import_error", top.pc)
    /\ DOMAIN FUNCTIONS # {} /\ FUNCTIONS = ev.preF
    /\ envs[top.env] = ev.preEnv /\ "x" \in DOMAIN ev.preEnv

\* The statement at the current line is a general assignment whose right-hand side
\* does not evaluate: an expression that gives no value, or a call of an unknown
\* function.
FailedAssignment ==
    /\ AtLine
    /\ \/ cur.k = "var" /\ EvalText(cur.e, variables, heap) = None
       \/ cur.k = "varcall" /\ cur.f \notin DOMAIN FUNCTIONS

\* C19: a general assignment whose right-hand side fails to evaluate is reported and
\* skipped: every Environment, the instances and the registries are as before, and
\* the same invocation goes on with the next line.
C19_FailedAssignmentIsSkipped ==
    [][FailedAssignment =>
          /\ envs' = envs /\ heap' = heap
          /\ FUNCTIONS' = FUNCTIONS /\ CLASSES' = CLASSES
          /\ status' = status
          /\ stack' = [stack EXCEPT ![Len(stack)].pc = top.pc + 1]
          /\ Len(output') > Len(output)
          /\ output'[Len(output')] \in {Diag("invalid_value", top.pc + 1), Diag("invalid_new", 0)}]_vars

\* An assignment to a bound variable failed: the variable has the value it had.
C19_Witness ==
    /\ ev.t = "var" /\ Running /\ output # <<>> /\ trace # <<>>
    /\ output[Len(output)] = Diag("invalid_value", top.pc)
    /\ trace[Len(trace)] = Var("x", Ip("zz"))
    /\ "x" \in DOMAIN envs[top.env] /\ envs[top.env]["x"] = IntV(1)

\* The keyword of the line at position j, comments stripped.
Kind(lines, j) == strip_inline_comments(lines[j + 1]).k

\* The closer that belongs to an opener.
CloserOf(k) == CASE k \in {"func", "funcbad"} -> "endfunc"
                 [] k = "class" -> "endclass"
                 [] k = "if" -> "endif"
                 [] k = "loop" -> "endloop"

\* The lines from position i on close, in order and by kind, the blocks open at i
\* (innermost last) and every block they open themselves.
RECURSIVE Nesting(_, _, _)
Nesting(lines, i, open) ==
    IF i = Len(lines) THEN open = <<>>
    ELSE LET k == Kind(lines, i) IN
         IF k \in Openers THEN Nesting(lines, i + 1, Append(open, k))
         ELSE IF k \in Closers
         THEN /\ open # <<>>
              /\ CloserOf(open[Len(open)]) = k
              /\ Nesting(lines, i + 1, SubSeq(open, 1, Len(open) - 1))
         ELSE Nesting(lines, i + 1, open)

WellNested(lines) == Nesting(lines, 0, <<>>)

\* The line at position j lies in a func or class block opened before it (the
\* block's closer included).
InConstruct(lines, j) ==
    \E q \in 0..(j - 1) : /\ Kind(lines, q) \in {"func", "funcbad", "class"}
                          /\ MatchingCloser(lines, q) >= j

\* The positions of the func lines that are in no other func or class block.
TopFuncs(lines) ==
    {p \in 0..(Len(lines) - 1) : Kind(lines, p) = "func" /\ ~InConstruct(lines, p)}

\* The first n lines without the func and class blocks among them.
RECURSIVE Outside(_, _)
Outside(lines, n) ==
    IF n = 0 THEN <<>>
    ELSE Outside(lines, n - 1) \o
         (IF Kind(lines, n - 1) \in {"func", "funcbad", "class"} \/ InConstruct(lines, n - 1)
          THEN <<>> ELSE <<lines[n]>>)

\* A well-nested source whose func lines outside every block are func NAME(args).
WellFormed(lines) ==
    /\ WellNested(lines)
    /\ \A p \in 0..(Len(lines) - 1) : Kind(lines, p) = "funcbad" => InConstruct(lines, p)

C21_NoLineComesBack ==
    status = "subst" => \A i \in 1..Len(trace) : trace[i] # subst_line

\* C22: when the body of a method or of an init is entered, every declared parameter,
\* used as a bare name, evaluates to the argument value bound for this call,
\* whatever attributes the receiver has.
C22_ParametersHideAttributes ==
    (ev.t = "enter" /\ ev.kind \in {"method", "init"}) =>
        \A n \in (DOMAIN variables) \ {"this"} :
           safe_eval(Nm(n), variables, heap) = variables[n]

\* An iteration of a loop is over.
IterationEnds == Running /\ top.kind = "loop" /\ top.pc >= Len(top.lines)

\* The instances the Environment of the loop statement bound at loop entry.
BoundAtEntry(fr) == {fr.entry[n].v : n \in {m \in DOMAIN fr.entry : fr.entry[m].t = "obj"}}

\* C23 as stated: when an iteration of a loop is over, every Instance bound in the
\* Environment at loop entry has the attributes it had at loop entry, whatever the
\* iteration wrote, so that neither the next iteration nor the statements after the
\* loop see an attribute written in the body.
C23_IterationWritesToInstancesAreLost ==
    [][IterationEnds =>
          \A o \in BoundAtEntry(top) : heap'[o].attrs = top.entryHeap[o].attrs]_vars

\* The statement at the current line is var this.A = E, run for an Instance, in the
\* body of a loop or in something the body called.
WritesInLoop ==
    /\ AtLine /\ cur.k = "varthis" /\ ~ContainsNew(cur)
    /\ "this" \in DOMAIN variables /\ variables["this"].t = "obj"
    /\ \E i \in 1..Len(stack) : stack[i].kind = "loop"

\* C23 as amended: an iteration runs against a copy of the bindings taken at loop
\* entry, and the Instances are not copied: var this.ATTR = EXPR in a method called
\* from the body writes the attribute of the Instance itself, and when the iteration
\* is over the next iteration (or, after the last, the Environment of the loop
\* statement) has the bindings of loop entry, to the same Instances, with the
\* attributes as the iteration left them.
C23_IterationsShareTheInstances ==
    [][/\ WritesInLoop =>
             LET o == variables["this"].v IN
             /\ Len(heap') = Len(heap)
             /\ \A j \in 1..Len(heap) : j # o => heap'[j] = heap[j]
             /\ heap'[o].attrs = Bind(heap[o].attrs, cur.n, EvalText(cur.e, variables, heap))
       /\ IterationEnds =>
             /\ heap' = heap
             /\ Running' /\ envs'[top'.env] = top.entry
             /\ \A o \in BoundAtEntry(top) : o \in 1..Len(heap')]_vars

\* The loop is over, and the Instance that p was bound to at loop entry, then with
\* x = 1, is what p is bound to now, with the x = 2 the body wrote.
C23_Witness ==
    /\ ev.t = "finish" /\ ev.kind = "loop" /\ ev.last /\ Running
    /\ "p" \in DOMAIN ev.entry /\ ev.entry["p"].t = "obj"
    /\ "p" \in DOMAIN variables /\ variables["p"] = ev.entry["p"]
    /\ "q" \notin DOMAIN variables
    /\ heap[variables["p"].v].attrs["x"] = IntV(2)
    /\ \E i \in 1..Len(output) : output[i].t = "say" /\ output[i].v = IntV(1)

\* C24: when a source has been preprocessed, the nesting counter was not negative
\* after any of its lines.
C24_NestLevelIsNeverNegative ==
    ev.t = "main" =>
        \A n \in 0..Len(script) :
           preprocess_script(SubSeq(script, 1, n), EmptyMap, EmptyMap).nest_level >= 0

=============================================================================
